---------------------------- MODULE Spec2Model ----------------------------
(***************************************************************************)
(* Model of the concurrent review pipeline of go-ai-codereview:            *)
(* Engine.Start, Engine.producer, Engine.readFile, Engine.worker, the       *)
(* closer goroutine and the collector loop of runWithTUI.                   *)
(*                                                                         *)
(* Every goroutine is a process with a program counter; every channel      *)
(* operation and every select is one atomic step.  A select whose several  *)
(* cases are ready is a nondeterministic choice among them (Go chooses     *)
(* pseudo-randomly); a send on a closed channel panics and ends the        *)
(* process.                                                                *)
(***************************************************************************)
EXTENDS Integers, Sequences, FiniteSets, TLC

\* ------------------------------------------------------------------ bounds
MaxFiles == 3
MaxConcurrency == 2
MaxEntries == 3      \* entries one WalkDir visits below the root
MaxDepth == 2        \* nested directories, the root included

\* ------------------------------------------------------- program constants
MaxFileSize == 32 * 1024

SkipReasonNone == ""
SkipReasonTooLarge == "file_too_large"
SkipReasonReadErr == "read_error"

VARIABLES
    files,          \* the candidate paths handed to Engine.Start
    concurrency,    \* Engine.concurrency
    ctxDone,        \* ctx.Done() is closed
    jobs,           \* buffered channel of Job, capacity concurrency
    jobsClosed,
    results,        \* buffered channel of Result, capacity 2 * concurrency
    resultsClosed,
    pcProducer,     \* position of Engine.producer
    fileIdx,        \* index of the producer's range loop over files
    pending,        \* what readFile returned for files[fileIdx]
    fileCond,       \* what the file system answered for files[fileIdx]
    env,            \* the fixed file system and service of a run, if any
    pcWorker,       \* position of each Engine.worker goroutine
    job,            \* the Job each worker holds
    review,         \* what ReviewCode returned to each worker
    wg,             \* sync.WaitGroup counter
    pcCloser,       \* position of the closer goroutine
    pcCollector,    \* position of the collector loop
    allResults,     \* the collector's allResults slice
    panicked,       \* the process died of a send on a closed channel
    \* ---- history of the run (observations, never read by the program)
    calls,          \* per path, the number of ReviewCode calls started
    jobSends,       \* per path, the number of completed sends on jobs
    resultSends,    \* per path, the number of completed sends on results
    deqBefore,      \* paths dequeued by a worker before cancellation
    deqAfter,       \* paths dequeued by a worker after cancellation
    workerDropped,  \* paths whose job a worker abandoned without a Result
    producerDropped,\* paths whose computed outcome the producer discarded
    lateJobSends,   \* job sends completed while ctx was already cancelled
    lateOpens,      \* readFile calls started while ctx was already cancelled
    closes,         \* number of close(results) executed
    callLevels,     \* the levels passed to ReviewCode so far
    \* ---- the run around the pipeline (runReviewTask)
    cfg,            \* the concurrency and level given to NewEngine
    level,          \* Engine.level
    pcRun,          \* position of runReviewTask
    scanIn,         \* the root, whitelist and options given to NewScanner
    scanner,        \* the Scanner that NewScanner built
    stack,          \* the directories WalkDir is inside, outermost first
    entry,          \* the entry the WalkDir callback was last called with
    cbRet,          \* its path, what the callback returned, whether it appended
                    \* the path, and whether WalkDir went into the entry
    scanFiles,      \* the files slice of Scan
    scanErr,        \* the error NewScanner or Scan returned
    visited,        \* number of entries WalkDir has visited
    \* ---- the process around the task (executeRun, runWithTUI, the report)
    main,           \* the main goroutine: its position, the task list, the loop
                    \* index, the tasks run so far and the exit status
    report          \* the report: the name given, the file name made of it,
                    \* whether it was written and how many Results it holds

progVars == <<files, env, concurrency, ctxDone, jobs, jobsClosed, results,
              resultsClosed, pcProducer, fileIdx, pending, fileCond, pcWorker, job,
              review, wg, pcCloser, pcCollector, allResults, panicked>>
histVars == <<calls, jobSends, resultSends, deqBefore, deqAfter,
              workerDropped, producerDropped, lateJobSends, lateOpens, closes,
              callLevels>>
engineVars == <<cfg, level>>
scanVars == <<pcRun, scanIn, scanner, stack, entry, cbRet, scanFiles, scanErr,
              visited>>
execVars == <<main, report>>
outerVars == <<engineVars, scanVars, execVars>>
vars == <<progVars, histVars, outerVars>>

\* Mutant: the spawning loop runs once too often (i <= e.concurrency).
NumWorkers_OffByOne == concurrency + 1

\* for i := 0; i < e.concurrency; i++ { wg.Add(1); go ... }
NumWorkers == concurrency

Workers == 1 .. NumWorkers
Paths == 1 .. Len(files)

NoJob == [FilePath |-> 0, Content |-> 0]
NoReview == [Review |-> FALSE, Error |-> FALSE]
NoPending ==
    [content |-> 0, fileSize |-> 0, skipReason |-> SkipReasonNone, err |-> FALSE,
     didRead |-> FALSE]

Min(a, b) == IF a <= b THEN a ELSE b

\* ------------------------------------------------------------ Engine.Start
\* Mutant: the job channel is made as large as the results channel.
JobsCap_Double == concurrency * 2

JobsCap == concurrency
ResultsCap == concurrency * 2

\* Mutant: the producer's Result carries no error.
ProducerResult_NoError(path, r) ==
    [FilePath |-> path, FileSize |-> r.fileSize, Review |-> FALSE,
     Error |-> FALSE, SkipReason |-> r.skipReason]

\* A Result as the producer builds it (FilePath, FileSize, Error, SkipReason).
ProducerResult(path, r) ==
    [FilePath |-> path, FileSize |-> r.fileSize, Review |-> FALSE,
     Error |-> r.err, SkipReason |-> r.skipReason]

\* A Result as a worker builds it (FilePath, Review, Error); FileSize and
\* SkipReason keep their zero values.
WorkerResult(j, rv) ==
    [FilePath |-> j.FilePath, FileSize |-> 0, Review |-> rv.Review,
     Error |-> rv.Error, SkipReason |-> SkipReasonNone]

\* ---------------------------------------------------------- Engine.readFile
\* What the file system answers for one path: whether open, stat and read
\* succeed, the size stat reports and the size of the file when it is read.
StatSizes == {MaxFileSize, MaxFileSize + 1}
ReadSizes == {MaxFileSize, MaxFileSize + 2}

\* Answers that readFile never gets to see are fixed: a file that cannot be
\* opened cannot be stat-ed or read, a file that cannot be stat-ed cannot be
\* read, and a file too large at stat time is still too large at read time.
FileConds ==
    {c \in [open : BOOLEAN, stat : BOOLEAN, statSize : StatSizes,
            read : BOOLEAN, readSize : ReadSizes] :
        /\ ~c.open => ~c.stat
        /\ ~c.stat => (c.statSize = MaxFileSize /\ ~c.read)
        /\ ~c.read => c.readSize = MaxFileSize
        /\ c.statSize > MaxFileSize => (c.read /\ c.readSize > MaxFileSize)}

\* No file is being read.
NoCond == [open |-> FALSE, stat |-> FALSE, statSize |-> 0, read |-> FALSE, readSize |-> 0]

\* Mutant: the check of the stat size is missing.
readFile_NoStatCheck(c) ==
    IF ~c.open
    THEN [content |-> 0, fileSize |-> 0, skipReason |-> SkipReasonReadErr, err |-> TRUE,
          didRead |-> FALSE]
    ELSE IF ~c.stat
    THEN [content |-> 0, fileSize |-> 0, skipReason |-> SkipReasonReadErr, err |-> TRUE,
          didRead |-> FALSE]
    ELSE IF ~c.read
    THEN [content |-> 0, fileSize |-> c.statSize, skipReason |-> SkipReasonReadErr,
          err |-> TRUE, didRead |-> TRUE]
    ELSE LET actualSize == Min(c.readSize, MaxFileSize + 1)
         IN  IF actualSize > MaxFileSize
             THEN [content |-> 0, fileSize |-> actualSize,
                   skipReason |-> SkipReasonTooLarge, err |-> TRUE, didRead |-> TRUE]
             ELSE [content |-> actualSize, fileSize |-> actualSize,
                   skipReason |-> SkipReasonNone, err |-> FALSE, didRead |-> TRUE]

\* Mutant: the second check, of the number of bytes actually read, is missing.
readFile_NoRecheck(c) ==
    IF ~c.open
    THEN [content |-> 0, fileSize |-> 0, skipReason |-> SkipReasonReadErr, err |-> TRUE,
          didRead |-> FALSE]
    ELSE IF ~c.stat
    THEN [content |-> 0, fileSize |-> 0, skipReason |-> SkipReasonReadErr, err |-> TRUE,
          didRead |-> FALSE]
    ELSE IF c.statSize > MaxFileSize
    THEN [content |-> 0, fileSize |-> c.statSize, skipReason |-> SkipReasonTooLarge,
          err |-> TRUE, didRead |-> FALSE]
    ELSE IF ~c.read
    THEN [content |-> 0, fileSize |-> c.statSize, skipReason |-> SkipReasonReadErr,
          err |-> TRUE, didRead |-> TRUE]
    ELSE LET actualSize == Min(c.readSize, MaxFileSize + 1)
         IN  [content |-> actualSize, fileSize |-> actualSize,
              skipReason |-> SkipReasonNone, err |-> FALSE, didRead |-> TRUE]

\* Mutant: a failed read is ignored and the (empty) content becomes a Job.
readFile_IgnoreReadErr(c) ==
    IF ~c.open
    THEN [content |-> 0, fileSize |-> 0, skipReason |-> SkipReasonReadErr, err |-> TRUE,
          didRead |-> FALSE]
    ELSE IF ~c.stat
    THEN [content |-> 0, fileSize |-> 0, skipReason |-> SkipReasonReadErr, err |-> TRUE,
          didRead |-> FALSE]
    ELSE IF c.statSize > MaxFileSize
    THEN [content |-> 0, fileSize |-> c.statSize, skipReason |-> SkipReasonTooLarge,
          err |-> TRUE, didRead |-> FALSE]
    ELSE IF ~c.read
    THEN [content |-> 0, fileSize |-> 0, skipReason |-> SkipReasonNone,
          err |-> FALSE, didRead |-> TRUE]
    ELSE LET actualSize == Min(c.readSize, MaxFileSize + 1)
         IN  IF actualSize > MaxFileSize
             THEN [content |-> 0, fileSize |-> actualSize,
                   skipReason |-> SkipReasonTooLarge, err |-> TRUE, didRead |-> TRUE]
             ELSE [content |-> actualSize, fileSize |-> actualSize,
                   skipReason |-> SkipReasonNone, err |-> FALSE, didRead |-> TRUE]

\* os.Open, f.Stat, the size check, io.ReadAll through the LimitReader of
\* MaxFileSize + 1 bytes, and the second size check.  Content is the number of
\* bytes of the returned string; didRead observes whether io.ReadAll was called.
readFile(c) ==
    IF ~c.open
    THEN [content |-> 0, fileSize |-> 0, skipReason |-> SkipReasonReadErr, err |-> TRUE,
          didRead |-> FALSE]
    ELSE IF ~c.stat
    THEN [content |-> 0, fileSize |-> 0, skipReason |-> SkipReasonReadErr, err |-> TRUE,
          didRead |-> FALSE]
    ELSE IF c.statSize > MaxFileSize
    THEN [content |-> 0, fileSize |-> c.statSize, skipReason |-> SkipReasonTooLarge,
          err |-> TRUE, didRead |-> FALSE]
    ELSE IF ~c.read
    THEN [content |-> 0, fileSize |-> c.statSize, skipReason |-> SkipReasonReadErr,
          err |-> TRUE, didRead |-> TRUE]
    ELSE LET actualSize == Min(c.readSize, MaxFileSize + 1)
         IN  IF actualSize > MaxFileSize
             THEN [content |-> 0, fileSize |-> actualSize,
                   skipReason |-> SkipReasonTooLarge, err |-> TRUE, didRead |-> TRUE]
             ELSE [content |-> actualSize, fileSize |-> actualSize,
                   skipReason |-> SkipReasonNone, err |-> FALSE, didRead |-> TRUE]

\* ------------------------------------------------------------- environment
\* A run either leaves the file system and the AnalysisService free to answer
\* anything at any time (env = NoEnv), or fixes, per path, what the file
\* system answers and whether the service succeeds.
NoEnv == <<>>

CondChoices(i) == IF env = NoEnv THEN FileConds ELSE {env[i].cond}

AnswerChoices(path) == IF env = NoEnv THEN BOOLEAN ELSE {env[path].ok}

\* ---------------------------------------------------------------- NewEngine
DefaultConcurrency == 5
DefaultLevel == 3
MinLevel == 1
MaxLevel == 6

\* Mutant: a non-positive concurrency is kept.
NewEngine_NoDefault(c, l) ==
    [concurrency |-> c,
     level |-> IF l < MinLevel \/ l > MaxLevel THEN DefaultLevel ELSE l]

\* Mutant: the level is stored as given.
NewEngine_NoClamp(c, l) ==
    [concurrency |-> IF c <= 0 THEN DefaultConcurrency ELSE c, level |-> l]

\* NewEngine(client, concurrency, level) for a non-nil client: the fields of
\* the Engine it returns.
NewEngine(c, l) ==
    [concurrency |-> IF c <= 0 THEN DefaultConcurrency ELSE c,
     level |-> IF l < MinLevel \/ l > MaxLevel THEN DefaultLevel ELSE l]

\* The values NewEngine is given in the runs that look at the constructor.
GivenConcurrency == -1 .. MaxConcurrency
GivenLevels == (MinLevel - 1) .. (MaxLevel + 1)

\* The engine of the pipeline specifications was built from the concurrency
\* it runs with and the default level.
EngineDefault ==
    /\ cfg = [concurrency |-> concurrency, level |-> DefaultLevel]
    /\ level = NewEngine(cfg.concurrency, cfg.level).level

\* ------------------------------------------------------------------ Scanner
\* A string is a sequence of character runs; "." is always a run of its own.
ToLowerRun(t) == IF t = "GO" THEN "go" ELSE IF t = "MD" THEN "md" ELSE t

\* strings.ToLower
ToLower(str) == [i \in 1 .. Len(str) |-> ToLowerRun(str[i])]

\* strings.HasPrefix(str, ".")
HasDotPrefix(str) == Len(str) > 0 /\ str[1] = "."

\* filepath.Ext: the suffix of the name that starts at its last dot.
Ext(name) ==
    LET dots == {i \in 1 .. Len(name) : name[i] = "."}
    IN  IF dots = {} THEN <<>>
        ELSE SubSeq(name, CHOOSE i \in dots : \A j \in dots : j <= i, Len(name))

\* str contains sub as a contiguous substring.
Contains(str, sub) ==
    \E i \in 0 .. (Len(str) - Len(sub)) : SubSeq(str, i + 1, i + Len(sub)) = sub

defaultExcludeDirs ==
    { <<".", "git">>, <<"node_modules">>, <<"dist">>, <<"vendor">>,
      <<".", "idea">>, <<".", "vscode">>, <<".", "DS_Store">>,
      <<"__pycache__">>, <<".", "cache">>, <<"build">> }

\* The base names that occur below the root, in the byte order in which
\* os.ReadDir returns the entries of a directory.
Names ==
    << <<".", "git">>, <<"build">>, <<"build", "er">>, <<"main", ".", "GO">>,
       <<"my", ".", "git", "hub", ".", "go">>, <<"tool">> >>

NameIndex(name) == CHOOSE i \in 1 .. Len(Names) : Names[i] = name

\* The prefix isBinaryFile reads, and where a file's first NUL byte can be
\* (offset from 0): nowhere, on the last byte of the prefix, just after it.
ProbeLen == 512
NoNul == -1
NulOffsets == {NoNul, ProbeLen - 1, ProbeLen}

NoScanIn == [rootName |-> <<>>, stat |-> "", lstat |-> "", includeExts |-> <<>>,
             opts |-> <<>>, gitignore |-> FALSE]
NoScanner == [includeExts |-> {}, excludeDirs |-> {}, gitIgnore |-> FALSE]
NoRet == [path |-> <<>>, ret |-> "", add |-> FALSE, entered |-> FALSE]
NoEntry == [name |-> <<>>, kind |-> "", target |-> "", ignored |-> FALSE,
            readDirErr |-> FALSE, open |-> FALSE, read |-> FALSE, nulAt |-> NoNul]

\* os.Exit has not been called and main has not returned.
NoExit == -1

\* The process around the task is not looked at: main sits in p.Run of the
\* one task, and no report has been asked for.
NoMain == [pc |-> "", n |-> 0, i |-> 0, ran |-> <<>>, exit |-> NoExit,
           doneCh |-> "empty", bg |-> {}]
NoReport == [customName |-> <<>>, reportFileName |-> <<>>, written |-> FALSE,
             count |-> 0]
ExecIdle == main = NoMain /\ report = NoReport

\* The pipeline specifications start where runReviewTask starts the engine;
\* they do not look at how the candidate list was found.
ScanOver ==
    /\ pcRun = "engine"
    /\ scanIn = NoScanIn
    /\ scanner = NoScanner
    /\ stack = <<>>
    /\ entry = NoEntry
    /\ cbRet = NoRet
    /\ scanFiles = <<>>
    /\ scanErr = FALSE
    /\ visited = 0

\* -------------------------------------------------------------------- Init
Init ==
    /\ files \in {[i \in 1 .. n |-> i] : n \in 0 .. MaxFiles}
    /\ concurrency \in 1 .. MaxConcurrency
    /\ ctxDone = FALSE
    /\ jobs = <<>>
    /\ jobsClosed = FALSE
    /\ results = <<>>
    /\ resultsClosed = FALSE
    /\ pcProducer = "check"
    /\ fileIdx = 1
    /\ pending = NoPending
    /\ fileCond = NoCond
    /\ env = NoEnv
    /\ pcWorker = [w \in Workers |-> "recv"]
    /\ job = [w \in Workers |-> NoJob]
    /\ review = [w \in Workers |-> NoReview]
    /\ wg = NumWorkers
    /\ pcCloser = "wait"
    /\ pcCollector = "range"
    /\ allResults = <<>>
    /\ panicked = FALSE
    /\ calls = [p \in 1 .. Len(files) |-> 0]
    /\ jobSends = [p \in 1 .. Len(files) |-> 0]
    /\ resultSends = [p \in 1 .. Len(files) |-> 0]
    /\ deqBefore = {}
    /\ deqAfter = {}
    /\ workerDropped = {}
    /\ producerDropped = {}
    /\ lateJobSends = 0
    /\ lateOpens = 0
    /\ closes = 0
    /\ callLevels = {}
    /\ ExecIdle
    /\ EngineDefault
    /\ ScanOver


\* --------------------------------------------------------- Engine.producer
\* `defer close(jobs)` runs on every return of the producer.
ProducerReturn ==
    /\ pcProducer' = "done"
    /\ jobsClosed' = TRUE

\* Mutant: the producer returns without closing jobs (no defer close(jobs)).
ProducerLoopEnd_NoClose ==
    /\ ~panicked
    /\ pcProducer = "check"
    /\ fileIdx > Len(files)
    /\ pcProducer' = "done"
    /\ UNCHANGED <<outerVars, files, env, concurrency, ctxDone, jobs, jobsClosed, results,
                   resultsClosed, fileIdx, pending, fileCond, pcWorker, job, review, wg,
                   pcCloser, pcCollector, allResults, panicked, histVars>>

\* The range loop over files is exhausted: the producer returns.
ProducerLoopEnd ==
    /\ ~panicked
    /\ pcProducer = "check"
    /\ fileIdx > Len(files)
    /\ ProducerReturn
    /\ UNCHANGED <<outerVars, files, env, concurrency, ctxDone, jobs, results, resultsClosed,
                   fileIdx, pending, fileCond, pcWorker, job, review, wg, pcCloser,
                   pcCollector, allResults, panicked, histVars>>

\* Mutant: the loop-top check is missing, the producer always reads on.
ProducerCheckCtx_NoCheck ==
    /\ ~panicked
    /\ pcProducer = "check"
    /\ fileIdx <= Len(files)
    /\ pcProducer' = "read"
    /\ UNCHANGED <<outerVars, files, env, concurrency, ctxDone, jobs, jobsClosed, results,
                   resultsClosed, fileIdx, pending, fileCond, pcWorker, job, review, wg,
                   pcCloser, pcCollector, allResults, panicked, histVars>>

\* select { case <-ctx.Done(): return; default: } at the top of the loop.
ProducerCheckCtx ==
    /\ ~panicked
    /\ pcProducer = "check"
    /\ fileIdx <= Len(files)
    /\ IF ctxDone
       THEN ProducerReturn
       ELSE pcProducer' = "read" /\ UNCHANGED jobsClosed
    /\ UNCHANGED <<outerVars, files, env, concurrency, ctxDone, jobs, results, resultsClosed,
                   fileIdx, pending, fileCond, pcWorker, job, review, wg, pcCloser,
                   pcCollector, allResults, panicked, histVars>>

\* content, fileSize, skipReason, err := e.readFile(file)
ProducerReadFile ==
    /\ ~panicked
    /\ pcProducer = "read"
    /\ \E c \in CondChoices(fileIdx) :
          /\ fileCond' = c
          /\ pending' = readFile(c)
          /\ pcProducer' = IF pending'.err THEN "sendResult" ELSE "sendJob"
    /\ lateOpens' = IF ctxDone THEN lateOpens + 1 ELSE lateOpens
    /\ UNCHANGED <<outerVars, files, env, concurrency, ctxDone, jobs, jobsClosed, results,
                   resultsClosed, fileIdx, pcWorker, job, review, wg, pcCloser,
                   pcCollector, allResults, panicked, calls, callLevels, jobSends,
                   resultSends, deqBefore, deqAfter, workerDropped,
                   producerDropped, lateJobSends, closes>>

\* Mutant: the `continue` after the send is missing, so the producer goes on
\* to send a Job for the same path.
ProducerSendResult_NoContinue ==
    /\ ~panicked
    /\ pcProducer = "sendResult"
    /\ ~resultsClosed
    /\ Len(results) < ResultsCap
    /\ results' = Append(results, ProducerResult(files[fileIdx], pending))
    /\ resultSends' = [resultSends EXCEPT ![files[fileIdx]] = @ + 1]
    /\ pcProducer' = "sendJob"
    /\ UNCHANGED <<outerVars, files, env, concurrency, ctxDone, jobs, jobsClosed, resultsClosed,
                   fileIdx, pending, fileCond, pcWorker, job, review, wg, pcCloser,
                   pcCollector, allResults, panicked, calls, callLevels, jobSends, deqBefore,
                   deqAfter, workerDropped, producerDropped, lateJobSends,
                   lateOpens, closes>>

\* case results <- Result{...}: of the select after a failed readFile.  A send
\* on a closed channel panics (the deferred close(jobs) runs while the
\* goroutine unwinds, then the process dies); otherwise the send needs room
\* in the buffer.
ProducerSendResult ==
    /\ ~panicked
    /\ pcProducer = "sendResult"
    /\ IF resultsClosed
       THEN /\ panicked' = TRUE
            /\ ProducerReturn
            /\ producerDropped' = producerDropped \cup {files[fileIdx]}
            /\ UNCHANGED <<results, fileIdx, pending, fileCond, resultSends>>
       ELSE /\ Len(results) < ResultsCap
            /\ results' = Append(results, ProducerResult(files[fileIdx], pending))
            /\ resultSends' = [resultSends EXCEPT ![files[fileIdx]] = @ + 1]
            /\ pending' = NoPending
            /\ fileCond' = NoCond
            /\ fileIdx' = fileIdx + 1
            /\ pcProducer' = "check"
            /\ UNCHANGED <<panicked, jobsClosed, producerDropped>>
    /\ UNCHANGED <<outerVars, files, env, concurrency, ctxDone, jobs, resultsClosed,
                   pcWorker, job, review, wg, pcCloser, pcCollector, allResults,
                   calls, callLevels, jobSends, deqBefore, deqAfter, workerDropped,
                   lateJobSends, lateOpens, closes>>

\* Mutant: the select has a `default: return` instead of the ctx.Done case, so
\* a full results channel makes the producer give up.
ProducerSendResultCancelled_Default ==
    /\ ~panicked
    /\ pcProducer = "sendResult"
    /\ Len(results) >= ResultsCap
    /\ ProducerReturn
    /\ producerDropped' = producerDropped \cup {files[fileIdx]}
    /\ UNCHANGED <<outerVars, files, env, concurrency, ctxDone, jobs, results, resultsClosed,
                   fileIdx, pending, fileCond, pcWorker, job, review, wg, pcCloser,
                   pcCollector, allResults, panicked, calls, callLevels, jobSends,
                   resultSends, deqBefore, deqAfter, workerDropped,
                   lateJobSends, lateOpens, closes>>

\* case <-ctx.Done(): return of the same select.
ProducerSendResultCancelled ==
    /\ ~panicked
    /\ pcProducer = "sendResult"
    /\ ctxDone
    /\ ProducerReturn
    /\ producerDropped' = producerDropped \cup {files[fileIdx]}
    /\ UNCHANGED <<outerVars, files, env, concurrency, ctxDone, jobs, results, resultsClosed,
                   fileIdx, pending, fileCond, pcWorker, job, review, wg, pcCloser,
                   pcCollector, allResults, panicked, calls, callLevels, jobSends,
                   resultSends, deqBefore, deqAfter, workerDropped,
                   lateJobSends, lateOpens, closes>>

\* Mutant: the select has a `default:` case, so a full job channel makes the
\* producer skip the file.
ProducerSendJob_Default ==
    /\ ~panicked
    /\ pcProducer = "sendJob"
    /\ IF Len(jobs) < JobsCap
       THEN /\ jobs' = Append(jobs, [FilePath |-> files[fileIdx], Content |-> pending.content])
            /\ jobSends' = [jobSends EXCEPT ![files[fileIdx]] = @ + 1]
       ELSE UNCHANGED <<jobs, jobSends>>
    /\ lateJobSends' = IF ctxDone THEN lateJobSends + 1 ELSE lateJobSends
    /\ pending' = NoPending
    /\ fileCond' = NoCond
    /\ fileIdx' = fileIdx + 1
    /\ pcProducer' = "check"
    /\ UNCHANGED <<outerVars, files, env, concurrency, ctxDone, jobsClosed, results,
                   resultsClosed, pcWorker, job, review, wg, pcCloser,
                   pcCollector, allResults, panicked, calls, callLevels, resultSends,
                   deqBefore, deqAfter, workerDropped, producerDropped,
                   lateOpens, closes>>

\* case jobs <- Job{FilePath: file, Content: content}: of the last select.
ProducerSendJob ==
    /\ ~panicked
    /\ pcProducer = "sendJob"
    /\ Len(jobs) < JobsCap
    /\ jobs' = Append(jobs, [FilePath |-> files[fileIdx], Content |-> pending.content])
    /\ jobSends' = [jobSends EXCEPT ![files[fileIdx]] = @ + 1]
    /\ lateJobSends' = IF ctxDone THEN lateJobSends + 1 ELSE lateJobSends
    /\ pending' = NoPending
    /\ fileCond' = NoCond
    /\ fileIdx' = fileIdx + 1
    /\ pcProducer' = "check"
    /\ UNCHANGED <<outerVars, files, env, concurrency, ctxDone, jobsClosed, results,
                   resultsClosed, pcWorker, job, review, wg, pcCloser,
                   pcCollector, allResults, panicked, calls, callLevels, resultSends,
                   deqBefore, deqAfter, workerDropped, producerDropped,
                   lateOpens, closes>>

\* case <-ctx.Done(): return of the last select.
ProducerSendJobCancelled ==
    /\ ~panicked
    /\ pcProducer = "sendJob"
    /\ ctxDone
    /\ ProducerReturn
    /\ UNCHANGED <<outerVars, files, env, concurrency, ctxDone, jobs, results, resultsClosed,
                   fileIdx, pending, fileCond, pcWorker, job, review, wg, pcCloser,
                   pcCollector, allResults, panicked, histVars>>

\* ----------------------------------------------------------- Engine.worker
\* The goroutine of Start: defer wg.Done() runs when e.worker returns.
WorkerReturn(w) ==
    /\ pcWorker' = [pcWorker EXCEPT ![w] = "done"]
    /\ wg' = wg - 1

\* for job := range jobs: a Job is received.
WorkerRecv(w) ==
    /\ ~panicked
    /\ pcWorker[w] = "recv"
    /\ Len(jobs) > 0
    /\ job' = [job EXCEPT ![w] = Head(jobs)]
    /\ jobs' = Tail(jobs)
    /\ pcWorker' = [pcWorker EXCEPT ![w] = "check"]
    /\ IF ctxDone
       THEN deqAfter' = deqAfter \cup {Head(jobs).FilePath} /\ UNCHANGED deqBefore
       ELSE deqBefore' = deqBefore \cup {Head(jobs).FilePath} /\ UNCHANGED deqAfter
    /\ UNCHANGED <<outerVars, files, env, concurrency, ctxDone, jobsClosed, results,
                   resultsClosed, pcProducer, fileIdx, pending, fileCond, review, wg,
                   pcCloser, pcCollector, allResults, panicked, calls, callLevels, jobSends,
                   resultSends, workerDropped, producerDropped, lateJobSends,
                   lateOpens, closes>>

\* Mutant: the worker polls the job channel and leaves as soon as it is empty,
\* closed or not.
WorkerRangeEnd_Empty(w) ==
    /\ ~panicked
    /\ pcWorker[w] = "recv"
    /\ Len(jobs) = 0
    /\ WorkerReturn(w)
    /\ UNCHANGED <<outerVars, files, env, concurrency, ctxDone, jobs, jobsClosed, results,
                   resultsClosed, pcProducer, fileIdx, pending, fileCond, job, review,
                   pcCloser, pcCollector, allResults, panicked, histVars>>

\* for job := range jobs: the channel is closed and drained, the loop ends.
WorkerRangeEnd(w) ==
    /\ ~panicked
    /\ pcWorker[w] = "recv"
    /\ Len(jobs) = 0
    /\ jobsClosed
    /\ WorkerReturn(w)
    /\ UNCHANGED <<outerVars, files, env, concurrency, ctxDone, jobs, jobsClosed, results,
                   resultsClosed, pcProducer, fileIdx, pending, fileCond, job, review,
                   pcCloser, pcCollector, allResults, panicked, histVars>>

\* Mutant: the worker does not check ctx after the receive and always calls
\* ReviewCode.
WorkerCheckCtx_NoCheck(w) ==
    /\ ~panicked
    /\ pcWorker[w] = "check"
    /\ pcWorker' = [pcWorker EXCEPT ![w] = "review"]
    /\ calls' = [calls EXCEPT ![job[w].FilePath] = @ + 1]
    /\ callLevels' = callLevels \cup {level}
    /\ UNCHANGED <<outerVars, files, env, concurrency, ctxDone, jobs, jobsClosed, results,
                   resultsClosed, pcProducer, fileIdx, pending, fileCond, job, review, wg,
                   pcCloser, pcCollector, allResults, panicked, jobSends,
                   resultSends, deqBefore, deqAfter, workerDropped,
                   producerDropped, lateJobSends, lateOpens, closes>>

\* select { case <-ctx.Done(): return; default: } after the receive; when it
\* falls through, e.client.ReviewCode is called.
WorkerCheckCtx(w) ==
    /\ ~panicked
    /\ pcWorker[w] = "check"
    /\ IF ctxDone
       THEN /\ WorkerReturn(w)
            /\ workerDropped' = workerDropped \cup {job[w].FilePath}
            /\ UNCHANGED <<calls, callLevels>>
       ELSE /\ pcWorker' = [pcWorker EXCEPT ![w] = "review"]
            /\ calls' = [calls EXCEPT ![job[w].FilePath] = @ + 1]
            /\ callLevels' = callLevels \cup {level}
            /\ UNCHANGED <<wg, workerDropped>>
    /\ UNCHANGED <<outerVars, files, env, concurrency, ctxDone, jobs, jobsClosed, results,
                   resultsClosed, pcProducer, fileIdx, pending, fileCond, job, review,
                   pcCloser, pcCollector, allResults, panicked, jobSends,
                   resultSends, deqBefore, deqAfter, producerDropped,
                   lateJobSends, lateOpens, closes>>

\* Mutant: a failed ReviewCode call ends the worker.
WorkerReviewCode_Fatal(w) ==
    /\ ~panicked
    /\ pcWorker[w] = "review"
    /\ \E ok \in AnswerChoices(job[w].FilePath) :
          /\ review' = [review EXCEPT ![w] = [Review |-> ok, Error |-> ~ok]]
          /\ IF ok
             THEN pcWorker' = [pcWorker EXCEPT ![w] = "send"] /\ UNCHANGED wg
             ELSE WorkerReturn(w)
    /\ UNCHANGED <<outerVars, files, env, concurrency, ctxDone, jobs, jobsClosed, results,
                   resultsClosed, pcProducer, fileIdx, pending, fileCond, job,
                   pcCloser, pcCollector, allResults, panicked, histVars>>

\* Mutant: a failed ReviewCode call is tried again for the same job.
WorkerReviewCode_Retry(w) ==
    /\ ~panicked
    /\ pcWorker[w] = "review"
    /\ \E ok \in AnswerChoices(job[w].FilePath) :
          /\ review' = [review EXCEPT ![w] = [Review |-> ok, Error |-> ~ok]]
          /\ pcWorker' = [pcWorker EXCEPT ![w] = IF ok THEN "send" ELSE "check"]
    /\ UNCHANGED <<outerVars, files, env, concurrency, ctxDone, jobs, jobsClosed, results,
                   resultsClosed, pcProducer, fileIdx, pending, fileCond, job, wg,
                   pcCloser, pcCollector, allResults, panicked, histVars>>

\* review, err := e.client.ReviewCode(...) returns: a review and no error, or
\* no review and an error.
WorkerReviewCode(w) ==
    /\ ~panicked
    /\ pcWorker[w] = "review"
    /\ \E ok \in AnswerChoices(job[w].FilePath) :
          review' = [review EXCEPT ![w] = [Review |-> ok, Error |-> ~ok]]
    /\ pcWorker' = [pcWorker EXCEPT ![w] = "send"]
    /\ UNCHANGED <<outerVars, files, env, concurrency, ctxDone, jobs, jobsClosed, results,
                   resultsClosed, pcProducer, fileIdx, pending, fileCond, job, wg,
                   pcCloser, pcCollector, allResults, panicked, histVars>>

\* Mutant: the worker puts its Result at the head of the results channel.
WorkerSendResult_Front(w) ==
    /\ ~panicked
    /\ pcWorker[w] = "send"
    /\ IF resultsClosed
       THEN /\ panicked' = TRUE
            /\ WorkerReturn(w)
            /\ UNCHANGED <<results, job, review, resultSends>>
       ELSE /\ Len(results) < ResultsCap
            /\ results' = <<WorkerResult(job[w], review[w])>> \o results
            /\ resultSends' = [resultSends EXCEPT ![job[w].FilePath] = @ + 1]
            /\ job' = [job EXCEPT ![w] = NoJob]
            /\ review' = [review EXCEPT ![w] = NoReview]
            /\ pcWorker' = [pcWorker EXCEPT ![w] = "recv"]
            /\ UNCHANGED <<panicked, wg>>
    /\ UNCHANGED <<outerVars, files, env, concurrency, ctxDone, jobs, jobsClosed, resultsClosed,
                   pcProducer, fileIdx, pending, fileCond, pcCloser, pcCollector,
                   allResults, calls, callLevels, jobSends, deqBefore, deqAfter,
                   workerDropped, producerDropped, lateJobSends, lateOpens,
                   closes>>

\* Mutant: after a successful send the worker keeps its job and sends again
\* instead of going back to the range loop.
WorkerSendResult_Again(w) ==
    /\ ~panicked
    /\ pcWorker[w] = "send"
    /\ ~resultsClosed
    /\ Len(results) < ResultsCap
    /\ results' = Append(results, WorkerResult(job[w], review[w]))
    /\ resultSends' = [resultSends EXCEPT ![job[w].FilePath] = @ + 1]
    /\ \E next \in {"recv", "send"} :
          /\ pcWorker' = [pcWorker EXCEPT ![w] = next]
          /\ job' = IF next = "recv" THEN [job EXCEPT ![w] = NoJob] ELSE job
          /\ review' = IF next = "recv" THEN [review EXCEPT ![w] = NoReview] ELSE review
    /\ UNCHANGED <<outerVars, files, env, concurrency, ctxDone, jobs, jobsClosed, resultsClosed,
                   pcProducer, fileIdx, pending, fileCond, wg, pcCloser, pcCollector,
                   allResults, panicked, calls, callLevels, jobSends, deqBefore, deqAfter,
                   workerDropped, producerDropped, lateJobSends, lateOpens,
                   closes>>

\* case results <- Result{...}: of the worker's select.
WorkerSendResult(w) ==
    /\ ~panicked
    /\ pcWorker[w] = "send"
    /\ IF resultsClosed
       THEN /\ panicked' = TRUE
            /\ WorkerReturn(w)
            /\ UNCHANGED <<results, job, review, resultSends>>
       ELSE /\ Len(results) < ResultsCap
            /\ results' = Append(results, WorkerResult(job[w], review[w]))
            /\ resultSends' = [resultSends EXCEPT ![job[w].FilePath] = @ + 1]
            /\ job' = [job EXCEPT ![w] = NoJob]
            /\ review' = [review EXCEPT ![w] = NoReview]
            /\ pcWorker' = [pcWorker EXCEPT ![w] = "recv"]
            /\ UNCHANGED <<panicked, wg>>
    /\ UNCHANGED <<outerVars, files, env, concurrency, ctxDone, jobs, jobsClosed, resultsClosed,
                   pcProducer, fileIdx, pending, fileCond, pcCloser, pcCollector,
                   allResults, calls, callLevels, jobSends, deqBefore, deqAfter,
                   workerDropped, producerDropped, lateJobSends, lateOpens,
                   closes>>

\* Mutant: the select has a `default: return` instead of the ctx.Done case, so
\* a full results channel makes the worker give up.
WorkerSendCancelled_Default(w) ==
    /\ ~panicked
    /\ pcWorker[w] = "send"
    /\ Len(results) >= ResultsCap
    /\ WorkerReturn(w)
    /\ workerDropped' = workerDropped \cup {job[w].FilePath}
    /\ UNCHANGED <<outerVars, files, env, concurrency, ctxDone, jobs, jobsClosed, results,
                   resultsClosed, pcProducer, fileIdx, pending, fileCond, job, review,
                   pcCloser, pcCollector, allResults, panicked, calls, callLevels, jobSends,
                   resultSends, deqBefore, deqAfter, producerDropped,
                   lateJobSends, lateOpens, closes>>

\* Mutant: the select has no ctx.Done case at all (a plain blocking send).
WorkerSendCancelled_Never(w) ==
    /\ ~panicked
    /\ pcWorker[w] = "send"
    /\ FALSE
    /\ UNCHANGED vars

\* case <-ctx.Done(): return of the worker's select.
WorkerSendCancelled(w) ==
    /\ ~panicked
    /\ pcWorker[w] = "send"
    /\ ctxDone
    /\ WorkerReturn(w)
    /\ workerDropped' = workerDropped \cup {job[w].FilePath}
    /\ UNCHANGED <<outerVars, files, env, concurrency, ctxDone, jobs, jobsClosed, results,
                   resultsClosed, pcProducer, fileIdx, pending, fileCond, job, review,
                   pcCloser, pcCollector, allResults, panicked, calls, callLevels, jobSends,
                   resultSends, deqBefore, deqAfter, producerDropped,
                   lateJobSends, lateOpens, closes>>

\* ------------------------------------------- Engine.Start, closer goroutine
\* Mutant: the closer waits for the job channel to be closed and drained
\* instead of waiting for the workers.
CloserWait_JobsClosed ==
    /\ ~panicked
    /\ pcCloser = "wait"
    /\ jobsClosed
    /\ Len(jobs) = 0
    /\ pcCloser' = "close"
    /\ UNCHANGED <<outerVars, files, env, concurrency, ctxDone, jobs, jobsClosed, results,
                   resultsClosed, pcProducer, fileIdx, pending, fileCond, pcWorker, job,
                   review, wg, pcCollector, allResults, panicked, histVars>>

\* wg.Wait() returns once every worker goroutine has called wg.Done().
CloserWait ==
    /\ ~panicked
    /\ pcCloser = "wait"
    /\ wg = 0
    /\ pcCloser' = "close"
    /\ UNCHANGED <<outerVars, files, env, concurrency, ctxDone, jobs, jobsClosed, results,
                   resultsClosed, pcProducer, fileIdx, pending, fileCond, pcWorker, job,
                   review, wg, pcCollector, allResults, panicked, histVars>>

\* close(results)
CloserClose ==
    /\ ~panicked
    /\ pcCloser = "close"
    /\ resultsClosed' = TRUE
    /\ closes' = closes + 1
    /\ pcCloser' = "done"
    /\ UNCHANGED <<outerVars, files, env, concurrency, ctxDone, jobs, jobsClosed, results,
                   pcProducer, fileIdx, pending, fileCond, pcWorker, job, review, wg,
                   pcCollector, allResults, panicked, calls, callLevels, jobSends,
                   resultSends, deqBefore, deqAfter, workerDropped,
                   producerDropped, lateJobSends, lateOpens>>

\* ------------------------------------------------ runWithTUI, collector loop
\* for res := range results { allResults = append(allResults, res) }
CollectorRecv ==
    /\ ~panicked
    /\ pcCollector = "range"
    /\ Len(results) > 0
    /\ allResults' = Append(allResults, Head(results))
    /\ results' = Tail(results)
    /\ UNCHANGED <<outerVars, files, env, concurrency, ctxDone, jobs, jobsClosed, resultsClosed,
                   pcProducer, fileIdx, pending, fileCond, pcWorker, job, review, wg,
                   pcCloser, pcCollector, panicked, histVars>>

\* Mutant: the collector stops as soon as results is closed, without
\* draining what is still buffered.
CollectorRangeEnd_Early ==
    /\ ~panicked
    /\ pcCollector = "range"
    /\ resultsClosed
    /\ pcCollector' = "done"
    /\ UNCHANGED <<outerVars, files, env, concurrency, ctxDone, jobs, jobsClosed, results,
                   resultsClosed, pcProducer, fileIdx, pending, fileCond, pcWorker, job,
                   review, wg, pcCloser, allResults, panicked, histVars>>

\* The range loop ends when results is closed and drained.
CollectorRangeEnd ==
    /\ ~panicked
    /\ pcCollector = "range"
    /\ Len(results) = 0
    /\ resultsClosed
    /\ pcCollector' = "done"
    /\ UNCHANGED <<outerVars, files, env, concurrency, ctxDone, jobs, jobsClosed, results,
                   resultsClosed, pcProducer, fileIdx, pending, fileCond, pcWorker, job,
                   review, wg, pcCloser, allResults, panicked, histVars>>

\* ------------------------------------------------------------ cancellation
\* The context handed to Start is cancelled (signal, or cancel() of taskCtx).
Cancel ==
    /\ ~panicked
    /\ ~ctxDone
    /\ ctxDone' = TRUE
    /\ UNCHANGED <<outerVars, files, env, concurrency, jobs, jobsClosed, results, resultsClosed,
                   pcProducer, fileIdx, pending, fileCond, pcWorker, job, review, wg,
                   pcCloser, pcCollector, allResults, panicked, histVars>>

\* ------------------------------------------------------------ specification
Producer ==
    \/ ProducerLoopEnd
    \/ ProducerCheckCtx
    \/ ProducerReadFile
    \/ ProducerSendResult
    \/ ProducerSendResultCancelled
    \/ ProducerSendJob
    \/ ProducerSendJobCancelled

Worker(w) ==
    \/ WorkerRecv(w)
    \/ WorkerRangeEnd(w)
    \/ WorkerCheckCtx(w)
    \/ WorkerReviewCode(w)
    \/ WorkerSendResult(w)
    \/ WorkerSendCancelled(w)

Closer == CloserWait \/ CloserClose

Collector == CollectorRecv \/ CollectorRangeEnd

\* Every action is disabled once the process has panicked.
Next ==
    \/ ProducerLoopEnd
    \/ ProducerCheckCtx
    \/ ProducerReadFile
    \/ ProducerSendResult
    \/ ProducerSendResultCancelled
    \/ ProducerSendJob
    \/ ProducerSendJobCancelled
    \/ \E w \in Workers : WorkerRecv(w)
    \/ \E w \in Workers : WorkerRangeEnd(w)
    \/ \E w \in Workers : WorkerCheckCtx(w)
    \/ \E w \in Workers : WorkerReviewCode(w)
    \/ \E w \in Workers : WorkerSendResult(w)
    \/ \E w \in Workers : WorkerSendCancelled(w)
    \/ CloserWait
    \/ CloserClose
    \/ CollectorRecv
    \/ CollectorRangeEnd
    \/ Cancel

Spec == Init /\ [][Next]_vars

\* The runs explored for the liveness properties: the same engine, with the
\* list length and the worker count bounded together.
LiveInit == Init /\ Len(files) + concurrency <= MaxFiles + 1

\* Every goroutine that can take a step eventually takes one, and the
\* collector keeps receiving.  Nothing forces a cancellation.
FairSpec ==
    /\ LiveInit
    /\ [][Next]_vars
    /\ WF_vars(Producer)
    /\ \A w \in 1 .. MaxConcurrency : WF_vars(w \in Workers /\ Worker(w))
    /\ WF_vars(Closer)
    /\ WF_vars(Collector)

\* The same, but the collector may stop receiving at any time.
FairSpecNoCollector ==
    /\ LiveInit
    /\ [][Next]_vars
    /\ WF_vars(Producer)
    /\ \A w \in 1 .. MaxConcurrency : WF_vars(w \in Workers /\ Worker(w))
    /\ WF_vars(Closer)

\* ------------------------------------------- runs in a fixed environment
\* What one file does in every run: the answers of the file system and, for
\* a file that becomes a Job, the answer of ReviewCode (a pure function of
\* the path and content). The answer is fixed to TRUE for a file that never
\* reaches ReviewCode.
FileKinds ==
    {k \in [cond : FileConds, ok : BOOLEAN] : readFile(k.cond).err => k.ok}

\* A run that starts in a fixed environment, with any concurrency.
DetInit ==
    /\ files \in {[i \in 1 .. n |-> i] : n \in 0 .. MaxFiles}
    /\ concurrency \in 1 .. MaxConcurrency
    /\ env \in [1 .. Len(files) -> FileKinds]
    /\ ctxDone = FALSE
    /\ jobs = <<>>
    /\ jobsClosed = FALSE
    /\ results = <<>>
    /\ resultsClosed = FALSE
    /\ pcProducer = "check"
    /\ fileIdx = 1
    /\ pending = NoPending
    /\ fileCond = NoCond
    /\ pcWorker = [w \in Workers |-> "recv"]
    /\ job = [w \in Workers |-> NoJob]
    /\ review = [w \in Workers |-> NoReview]
    /\ wg = NumWorkers
    /\ pcCloser = "wait"
    /\ pcCollector = "range"
    /\ allResults = <<>>
    /\ panicked = FALSE
    /\ calls = [p \in 1 .. Len(files) |-> 0]
    /\ jobSends = [p \in 1 .. Len(files) |-> 0]
    /\ resultSends = [p \in 1 .. Len(files) |-> 0]
    /\ deqBefore = {}
    /\ deqAfter = {}
    /\ workerDropped = {}
    /\ producerDropped = {}
    /\ lateJobSends = 0
    /\ lateOpens = 0
    /\ closes = 0
    /\ callLevels = {}
    /\ ExecIdle
    /\ EngineDefault
    /\ ScanOver

\* The steps of a run whose context is never cancelled.
DetNext ==
    \/ ProducerLoopEnd
    \/ ProducerCheckCtx
    \/ ProducerReadFile
    \/ ProducerSendResult
    \/ ProducerSendJob
    \/ \E w \in Workers : WorkerRecv(w)
    \/ \E w \in Workers : WorkerRangeEnd(w)
    \/ \E w \in Workers : WorkerCheckCtx(w)
    \/ \E w \in Workers : WorkerReviewCode(w)
    \/ \E w \in Workers : WorkerSendResult(w)
    \/ CloserWait
    \/ CloserClose
    \/ CollectorRecv
    \/ CollectorRangeEnd

DetSpec == DetInit /\ [][DetNext]_vars

\* --------------------------------------------------------------- NewScanner
Range(seq) == {seq[i] : i \in 1 .. Len(seq)}

\* NewScanner(root, includeExts, opts...): the error, or the Scanner with its
\* whitelist normalised, the default exclusions plus those of
\* WithExcludeDirs, and the .gitignore of the root if one could be loaded.
NewScanner(in) ==
    IF in.stat \in {"enoent", "error"}
    THEN [err |-> TRUE, s |-> NoScanner]
    ELSE IF in.stat # "dir"
    THEN [err |-> TRUE, s |-> NoScanner]
    ELSE [err |-> FALSE,
          s |-> [includeExts |->
                    {ToLower(IF HasDotPrefix(x) THEN x ELSE <<".">> \o x) :
                        x \in Range(in.includeExts)},
                 excludeDirs |-> defaultExcludeDirs \cup Range(in.opts),
                 gitIgnore |-> in.gitignore]]

\* What NewScanner is given: the base name of the root and what os.Stat
\* (NewScanner) and os.Lstat (WalkDir) answer for it, the whitelist, the
\* names of WithExcludeDirs, and whether a .gitignore is loaded.  A root that
\* fails the validation is never walked, so its other inputs are fixed.
ScanInputs ==
    {in \in [rootName : {<<"build">>, <<"proj">>},
             stat : {"enoent", "error", "file", "dir"},
             lstat : {"error", "symlink", "dir"},
             includeExts : { <<>>, << <<"GO">>, <<".", "md">> >> },
             opts : { <<>>, << <<"tool">> >> },
             gitignore : BOOLEAN] :
        in.stat # "dir" =>
            /\ in.rootName = <<"proj">> /\ in.lstat = "error"
            /\ in.includeExts = <<>> /\ in.opts = <<>> /\ ~in.gitignore}

\* ------------------------------------------------- the WalkDir callback
\* The entries WalkDir can find in a directory.  Fields that the callback
\* cannot observe for an entry are fixed.
Entries ==
    {e \in [name : Range(Names), kind : {"dir", "file", "symlink"},
            target : {"dir", "file"}, ignored : BOOLEAN, readDirErr : BOOLEAN,
            open : BOOLEAN, read : BOOLEAN, nulAt : NulOffsets] :
        /\ e.kind # "symlink" => e.target = e.kind
        /\ e.kind # "dir" => ~e.readDirErr
        /\ e.kind # "file" => (e.open /\ e.read /\ e.nulAt = NoNul)
        /\ e.kind = "symlink" => ~e.ignored
        /\ ~e.open => ~e.read
        /\ ~e.read => e.nulAt # ProbeLen
        /\ e.ignored => (e.open /\ e.read /\ e.nulAt = NoNul /\ ~e.readDirErr)}

\* d.IsDir(): false for a symbolic link, whatever it points to.
IsDir(e) == e.kind = "dir"

\* Mutant: no entry is recognised as a symbolic link.
IsSymlink_Never(e) == FALSE

\* d.Type()&fs.ModeSymlink != 0
IsSymlink(e) == e.kind = "symlink"

\* Mutant: a name is excluded when it contains an excluded name.
IsExcluded_Substring(s, e) == \E x \in s.excludeDirs : Contains(e.name, x)

\* _, excluded := s.excludeDirs[baseName]
IsExcluded(s, e) == e.name \in s.excludeDirs

\* Mutant: an excluded directory is skipped as an entry but still walked.
ExcludedRet_Nil(e) == "nil"

\* What the callback returns for an excluded entry.
ExcludedRet(e) == IF IsDir(e) THEN "SkipDir" ELSE "nil"

\* Mutant: a file without extension passes any whitelist.
ExtAllowed_NoExt(s, e) ==
    \/ Cardinality(s.includeExts) = 0
    \/ Ext(e.name) = <<>>
    \/ ToLower(Ext(e.name)) \in s.includeExts

\* len(s.includeExts) == 0, or strings.ToLower(filepath.Ext(path)) is a key.
ExtAllowed(s, e) ==
    \/ Cardinality(s.includeExts) = 0
    \/ ToLower(Ext(e.name)) \in s.includeExts

\* The file has a NUL byte at nulAt as its last byte, or ProbeLen bytes
\* without any.
FileLen(e) == IF e.nulAt = NoNul THEN ProbeLen ELSE e.nulAt + 1

\* isBinaryFile(path): open, read up to 512 bytes, look for a NUL in them.
isBinaryFile(e) ==
    IF ~e.open THEN [isBinary |-> FALSE, err |-> TRUE]
    ELSE IF ~e.read THEN [isBinary |-> FALSE, err |-> TRUE]
    ELSE [isBinary |-> e.nulAt # NoNul /\ e.nulAt < Min(ProbeLen, FileLen(e)),
          err |-> FALSE]

\* Mutant: the callback hands the error it was called with back to WalkDir.
WalkFnErr_Propagate == "err"

\* if err != nil { return nil }: what the callback returns when WalkDir
\* calls it with an error (Lstat of the root, or ReadDir of a directory).
WalkFnErr == "nil"

\* The callback of Scan for an entry below the root, called without error:
\* what it returns to WalkDir and whether it appends the path to files.
WalkFn(s, e) ==
    IF IsSymlink(e)
    THEN [ret |-> IF IsDir(e) THEN "SkipDir" ELSE "nil", add |-> FALSE]
    ELSE IF IsExcluded(s, e)
    THEN [ret |-> ExcludedRet(e), add |-> FALSE]
    ELSE IF s.gitIgnore /\ e.ignored
    THEN [ret |-> IF IsDir(e) THEN "SkipDir" ELSE "nil", add |-> FALSE]
    ELSE IF IsDir(e)
    THEN [ret |-> "nil", add |-> FALSE]
    ELSE IF ~ExtAllowed(s, e)
    THEN [ret |-> "nil", add |-> FALSE]
    ELSE IF isBinaryFile(e).isBinary
    THEN [ret |-> "nil", add |-> FALSE]
    ELSE [ret |-> "nil", add |-> TRUE]

\* ------------------------------------------------------------ Scanner.Scan
\* The path of entry e below the root, given the directories WalkDir is in:
\* one component, with its name and kind, per level.
PathOf(stk, e) ==
    [i \in 1 .. (Len(stk) - 1) |-> [name |-> stk[i + 1].name, kind |-> stk[i + 1].kind]]
        \o << [name |-> e.name, kind |-> e.kind] >>

\* scn, err := scanner.NewScanner(task.Path, cfg.IncludeExts)
NewScannerCall ==
    /\ pcRun = "new"
    /\ scanner' = NewScanner(scanIn).s
    /\ scanErr' = NewScanner(scanIn).err
    /\ pcRun' = IF NewScanner(scanIn).err THEN "scanFailed" ELSE "scan"
    /\ UNCHANGED <<scanIn, stack, entry, cbRet, scanFiles, visited, progVars, histVars,
                   engineVars, execVars>>

\* Mutant: the root is tested against the excluded names like any other
\* directory and pruned when its name is one of them.
ScanRoot_TestsRoot ==
    /\ pcRun = "scan"
    /\ IF scanIn.lstat = "error"
       THEN /\ stack' = <<>>
            /\ scanErr' = (WalkFnErr \notin {"nil", "SkipDir"})
            /\ pcRun' = "scanned"
       ELSE IF scanIn.lstat = "dir" /\ ~IsExcluded(scanner, [name |-> scanIn.rootName])
       THEN /\ stack' = << [name |-> scanIn.rootName, kind |-> "dir", last |-> 0] >>
            /\ pcRun' = "walk"
            /\ UNCHANGED scanErr
       ELSE /\ stack' = <<>>
            /\ pcRun' = "scanned"
            /\ UNCHANGED scanErr
    /\ UNCHANGED <<scanIn, scanner, entry, cbRet, scanFiles, visited, progVars,
                   histVars, engineVars, execVars>>

\* filepath.WalkDir starts with Lstat of the root.  On an error the callback
\* is called with it and WalkDir returns what the callback returns.
\* Otherwise the callback is called for the root and returns nil at once
\* (relPath is "."), and only a real directory is then read.
ScanRoot ==
    /\ pcRun = "scan"
    /\ IF scanIn.lstat = "error"
       THEN /\ stack' = <<>>
            /\ scanErr' = (WalkFnErr \notin {"nil", "SkipDir"})
            /\ pcRun' = "scanned"
       ELSE IF scanIn.lstat = "dir"
       THEN /\ stack' = << [name |-> scanIn.rootName, kind |-> "dir", last |-> 0] >>
            /\ pcRun' = "walk"
            /\ UNCHANGED scanErr
       ELSE /\ stack' = <<>>
            /\ pcRun' = "scanned"
            /\ UNCHANGED scanErr
    /\ UNCHANGED <<scanIn, scanner, entry, cbRet, scanFiles, visited, progVars,
                   histVars, engineVars, execVars>>

\* WalkDir finds the next entry of the directory it is in (in name order) and
\* calls the callback with it.  It descends into a directory for which the
\* callback returned nil; if that directory cannot be read the callback is
\* called again with the error.  SkipDir for a non-directory gives up the
\* rest of the containing directory, and any other error ends the walk.
ScanVisit ==
    /\ pcRun = "walk"
    /\ visited < MaxEntries
    /\ \E e \in Entries :
          LET top == stack[Len(stack)]
              idx == NameIndex(e.name)
              cb == WalkFn(scanner, e)
              enter == IsDir(e) /\ cb.ret = "nil"
              ret == IF enter /\ e.readDirErr THEN WalkFnErr ELSE cb.ret
              descend == enter /\ ~e.readDirErr
              skipRest == ret = "SkipDir" /\ ~IsDir(e)
              abort == ret \notin {"nil", "SkipDir"}
          IN  /\ idx > top.last
              /\ e.kind = "dir" => Len(stack) < MaxDepth
              /\ e.ignored => scanner.gitIgnore
              /\ entry' = e
              /\ cbRet' = [path |-> PathOf(stack, e), ret |-> ret, add |-> cb.add,
                            entered |-> descend]
              /\ scanFiles' = IF cb.add THEN Append(scanFiles, PathOf(stack, e))
                              ELSE scanFiles
              /\ scanErr' = abort
              /\ pcRun' = IF abort THEN "scanned" ELSE pcRun
              /\ stack' =
                    IF abort THEN <<>>
                    ELSE IF descend
                    THEN Append([stack EXCEPT ![Len(stack)].last = idx],
                                [name |-> e.name, kind |-> e.kind, last |-> 0])
                    ELSE [stack EXCEPT ![Len(stack)].last =
                                          IF skipRest THEN Len(Names) ELSE idx]
    /\ visited' = visited + 1
    /\ UNCHANGED <<scanIn, scanner, progVars, histVars, engineVars, execVars>>

\* The directory WalkDir is in has no more entries: back to its parent.
ScanLeaveDir ==
    /\ pcRun = "walk"
    /\ Len(stack) > 1
    /\ stack' = SubSeq(stack, 1, Len(stack) - 1)
    /\ UNCHANGED <<pcRun, scanIn, scanner, entry, cbRet, scanFiles, scanErr, visited,
                   progVars, histVars, engineVars, execVars>>

\* The root has no more entries: WalkDir returns nil and Scan returns files
\* with it.
ScanEnd ==
    /\ pcRun = "walk"
    /\ Len(stack) = 1
    /\ stack' = <<>>
    /\ pcRun' = "scanned"
    /\ UNCHANGED <<scanIn, scanner, entry, cbRet, scanFiles, scanErr, visited,
                   progVars, histVars, engineVars, execVars>>

\* runReviewTask after Scan: an error ends the run, an empty list ends it
\* with a message, and otherwise the client and the engine are built (the
\* client may fail) and the engine is started on the files.
RunAfterScan ==
    /\ pcRun = "scanned"
    /\ pcRun' \in (IF scanErr THEN {"scanFailed"}
                   ELSE IF Len(scanFiles) = 0 THEN {"empty"}
                   ELSE {"clientFailed", "engine"})
    /\ UNCHANGED <<scanIn, scanner, stack, entry, cbRet, scanFiles, scanErr, visited,
                   progVars, histVars, engineVars, execVars>>

\* runReviewTask starts: nothing is scanned and no engine is built yet.
ScanInit ==
    /\ pcRun = "new"
    /\ scanIn \in ScanInputs
    /\ scanner = NoScanner
    /\ stack = <<>>
    /\ entry = NoEntry
    /\ cbRet = NoRet
    /\ scanFiles = <<>>
    /\ scanErr = FALSE
    /\ visited = 0
    /\ cfg = [concurrency |-> 0, level |-> 0]
    /\ level = 0
    /\ concurrency = 0
    /\ files = <<>>
    /\ env = NoEnv
    /\ ctxDone = FALSE
    /\ jobs = <<>>
    /\ jobsClosed = FALSE
    /\ results = <<>>
    /\ resultsClosed = FALSE
    /\ pcProducer = "none"
    /\ fileIdx = 1
    /\ pending = NoPending
    /\ fileCond = NoCond
    /\ pcWorker = <<>>
    /\ job = <<>>
    /\ review = <<>>
    /\ wg = 0
    /\ pcCloser = "none"
    /\ pcCollector = "none"
    /\ allResults = <<>>
    /\ panicked = FALSE
    /\ calls = <<>>
    /\ jobSends = <<>>
    /\ resultSends = <<>>
    /\ deqBefore = {}
    /\ deqAfter = {}
    /\ workerDropped = {}
    /\ producerDropped = {}
    /\ lateJobSends = 0
    /\ lateOpens = 0
    /\ closes = 0
    /\ callLevels = {}
    /\ ExecIdle

ScanNext ==
    \/ NewScannerCall
    \/ ScanRoot
    \/ ScanVisit
    \/ ScanLeaveDir
    \/ ScanEnd
    \/ RunAfterScan

ScanSpec == ScanInit /\ [][ScanNext]_vars

\* ------------------------------------------------ runs of a built engine
\* NewEngine was given any concurrency and level, and the engine it returned
\* is started on at most one file.
EngineInit ==
    /\ cfg \in [concurrency : GivenConcurrency, level : GivenLevels]
    /\ concurrency = NewEngine(cfg.concurrency, cfg.level).concurrency
    /\ level = NewEngine(cfg.concurrency, cfg.level).level
    /\ files \in {[i \in 1 .. n |-> i] : n \in 0 .. 1}
    /\ env = NoEnv
    /\ ctxDone = FALSE
    /\ jobs = <<>>
    /\ jobsClosed = FALSE
    /\ results = <<>>
    /\ resultsClosed = FALSE
    /\ pcProducer = "check"
    /\ fileIdx = 1
    /\ pending = NoPending
    /\ fileCond = NoCond
    /\ pcWorker = [w \in Workers |-> "recv"]
    /\ job = [w \in Workers |-> NoJob]
    /\ review = [w \in Workers |-> NoReview]
    /\ wg = NumWorkers
    /\ pcCloser = "wait"
    /\ pcCollector = "range"
    /\ allResults = <<>>
    /\ panicked = FALSE
    /\ calls = [p \in 1 .. Len(files) |-> 0]
    /\ jobSends = [p \in 1 .. Len(files) |-> 0]
    /\ resultSends = [p \in 1 .. Len(files) |-> 0]
    /\ deqBefore = {}
    /\ deqAfter = {}
    /\ workerDropped = {}
    /\ producerDropped = {}
    /\ lateJobSends = 0
    /\ lateOpens = 0
    /\ closes = 0
    /\ callLevels = {}
    /\ ExecIdle
    /\ ScanOver

EngineSpec == EngineInit /\ [][Next]_vars

\* ------------------------------------------------ executeRun, runWithTUI
\* The number of tasks given in one batch.
MaxTasks == 3

\* The process has not exited.
Alive == main.exit = NoExit

\* What is known of a task executeRun has started: what runReviewTask
\* returned, through which return statement, and whether ctx was cancelled
\* when it did.
Running(i) == [task |-> i, ret |-> "running", via |-> "", cancelled |-> FALSE]

\* runReviewTask (or runWithTUI for it) returns err or nil to executeRun.
Return(err, via) ==
    main' = [main EXCEPT !.pc = "returned",
                         !.ran[Len(main.ran)].ret = IF err THEN "err" ELSE "nil",
                         !.ran[Len(main.ran)].via = via,
                         !.ran[Len(main.ran)].cancelled = ctxDone]

\* reportPath, err := reviewer.GenerateMarkdownReport(allResults, ...): the
\* report file is written, or creating it fails.
CollectorReport ==
    /\ Alive
    /\ ~panicked
    /\ pcCollector = "done"
    /\ \E ok \in BOOLEAN :
          report' = [report EXCEPT !.written = ok, !.count = Len(allResults)]
    /\ pcCollector' = "reported"
    /\ UNCHANGED <<engineVars, scanVars, main, files, env, concurrency, ctxDone, jobs,
                   jobsClosed, results, resultsClosed, pcProducer, fileIdx, pending,
                   fileCond, pcWorker, job, review, wg, pcCloser, allResults, panicked,
                   histVars>>

\* p.Send(ui.DoneMsg{...}); doneCh <- err: doneCh has room for one value, so
\* the send never blocks, and the goroutine ends.
CollectorDone ==
    /\ Alive
    /\ ~panicked
    /\ pcCollector = "reported"
    /\ main' = [main EXCEPT !.doneCh = IF report.written THEN "nil" ELSE "err"]
    /\ pcCollector' = "exit"
    /\ UNCHANGED <<engineVars, scanVars, report, files, env, concurrency, ctxDone, jobs,
                   jobsClosed, results, resultsClosed, pcProducer, fileIdx, pending,
                   fileCond, pcWorker, job, review, wg, pcCloser, allResults, panicked,
                   histVars>>

\* p.Run() returns without an error: the model quits on any key and on
\* DoneMsg (Update returns tea.Quit for both).
TuiQuit ==
    /\ Alive
    /\ main.pc = "tui"
    /\ main' = [main EXCEPT !.pc = "select"]
    /\ UNCHANGED <<progVars, histVars, engineVars, scanVars, report>>

\* p.Run() returns an error: runWithTUI returns it at once, and the
\* background goroutine is left running.
TuiFail ==
    /\ Alive
    /\ main.pc = "tui"
    /\ Return(TRUE, "p.Run")
    /\ UNCHANGED <<progVars, histVars, engineVars, scanVars, report>>

\* select { case err := <-doneCh: return err ...
MainSelectDone ==
    /\ Alive
    /\ main.pc = "select"
    /\ main.doneCh # "empty"
    /\ Return(main.doneCh = "err", "doneCh")
    /\ UNCHANGED <<progVars, histVars, engineVars, scanVars, report>>

\* ... case <-ctx.Done(): return ctx.Err() }
MainSelectCtx ==
    /\ Alive
    /\ main.pc = "select"
    /\ ctxDone
    /\ Return(TRUE, "ctx.Done")
    /\ UNCHANGED <<progVars, histVars, engineVars, scanVars, report>>

\* executeRun after runReviewTask returned: an error while ctx is cancelled
\* exits with status 130, everything else goes on with the next task.
ExecTaskReturned ==
    /\ Alive
    /\ main.pc = "returned"
    /\ IF main.ran[Len(main.ran)].ret = "err" /\ ctxDone
       THEN main' = [main EXCEPT !.pc = "exited", !.exit = 130]
       ELSE main' = [main EXCEPT !.pc = "loop", !.i = main.i + 1]
    /\ UNCHANGED <<progVars, histVars, engineVars, scanVars, report>>

\* The head of executeRun's loop: after the last task executeRun returns and
\* the process exits with status 0; before a task, a cancelled ctx exits
\* with status 130; otherwise runReviewTask is called for the task.
ExecLoopHead ==
    /\ Alive
    /\ main.pc = "loop"
    /\ IF main.i > main.n
       THEN main' = [main EXCEPT !.pc = "exited", !.exit = 0]
       ELSE IF ctxDone
       THEN main' = [main EXCEPT !.pc = "exited", !.exit = 130]
       ELSE main' = [main EXCEPT !.pc = "task", !.ran = Append(main.ran, Running(main.i))]
    /\ UNCHANGED <<progVars, histVars, engineVars, scanVars, report>>

\* One task whose engine was built and started: main is in p.Run, the
\* background goroutine runs the pipeline and collects.
RunInit ==
    /\ files \in {[i \in 1 .. n |-> i] : n \in 0 .. MaxFiles}
    /\ concurrency \in 1 .. MaxConcurrency
    /\ ctxDone = FALSE
    /\ jobs = <<>>
    /\ jobsClosed = FALSE
    /\ results = <<>>
    /\ resultsClosed = FALSE
    /\ pcProducer = "check"
    /\ fileIdx = 1
    /\ pending = NoPending
    /\ fileCond = NoCond
    /\ env = NoEnv
    /\ pcWorker = [w \in Workers |-> "recv"]
    /\ job = [w \in Workers |-> NoJob]
    /\ review = [w \in Workers |-> NoReview]
    /\ wg = NumWorkers
    /\ pcCloser = "wait"
    /\ pcCollector = "range"
    /\ allResults = <<>>
    /\ panicked = FALSE
    /\ calls = [p \in 1 .. Len(files) |-> 0]
    /\ jobSends = [p \in 1 .. Len(files) |-> 0]
    /\ resultSends = [p \in 1 .. Len(files) |-> 0]
    /\ deqBefore = {}
    /\ deqAfter = {}
    /\ workerDropped = {}
    /\ producerDropped = {}
    /\ lateJobSends = 0
    /\ lateOpens = 0
    /\ closes = 0
    /\ callLevels = {}
    /\ main = [NoMain EXCEPT !.pc = "tui", !.n = 1, !.i = 1, !.ran = <<Running(1)>>]
    /\ report = NoReport
    /\ EngineDefault
    /\ ScanOver

\* The goroutines of the task and the main goroutine, until the process exits.
RunNext ==
    \/ Alive /\ ProducerLoopEnd
    \/ Alive /\ ProducerCheckCtx
    \/ Alive /\ ProducerReadFile
    \/ Alive /\ ProducerSendResult
    \/ Alive /\ ProducerSendResultCancelled
    \/ Alive /\ ProducerSendJob
    \/ Alive /\ ProducerSendJobCancelled
    \/ \E w \in Workers : Alive /\ WorkerRecv(w)
    \/ \E w \in Workers : Alive /\ WorkerRangeEnd(w)
    \/ \E w \in Workers : Alive /\ WorkerCheckCtx(w)
    \/ \E w \in Workers : Alive /\ WorkerReviewCode(w)
    \/ \E w \in Workers : Alive /\ WorkerSendResult(w)
    \/ \E w \in Workers : Alive /\ WorkerSendCancelled(w)
    \/ Alive /\ CloserWait
    \/ Alive /\ CloserClose
    \/ Alive /\ CollectorRecv
    \/ Alive /\ CollectorRangeEnd
    \/ Alive /\ Cancel
    \/ CollectorReport
    \/ CollectorDone
    \/ TuiQuit
    \/ TuiFail
    \/ MainSelectDone
    \/ MainSelectCtx
    \/ ExecTaskReturned
    \/ ExecLoopHead

RunSpec == RunInit /\ [][RunNext]_vars

\* ------------------------------------------------------------ batch mode
\* runReviewTask returns before an engine is started: with an error when
\* NewScanner, Scan, NewClient or NewEngine failed, with nil when Scan found
\* no file.
TaskEndsEarly ==
    /\ Alive
    /\ main.pc = "task"
    /\ \E err \in BOOLEAN : Return(err, "early")
    /\ UNCHANGED <<progVars, histVars, engineVars, scanVars, report>>

\* runWithTUI: doneCh is made, the background goroutine is started and main
\* calls p.Run().
TaskStartsTUI ==
    /\ Alive
    /\ main.pc = "task"
    /\ main' = [main EXCEPT !.pc = "tui", !.doneCh = "empty", !.bg = main.bg \cup {main.i}]
    /\ UNCHANGED <<progVars, histVars, engineVars, scanVars, report>>

\* The background goroutine of a task ends: it has drained results, called
\* GenerateMarkdownReport and sent its error (or nil) on the task's doneCh,
\* which only the runWithTUI call of that task can still receive.
BgFinish ==
    /\ Alive
    /\ \E j \in main.bg :
          \E d \in {"nil", "err"} :
             main' = [main EXCEPT !.bg = main.bg \ {j},
                                  !.doneCh = IF j = main.i /\ main.pc \in {"tui", "select"}
                                             THEN d ELSE main.doneCh]
    /\ UNCHANGED <<progVars, histVars, engineVars, scanVars, report>>

\* executeRun is about to run a batch of one to MaxTasks parsed tasks; what
\* happens inside a task's pipeline is not looked at.
BatchInit ==
    /\ pcRun = "engine"
    /\ scanIn = NoScanIn
    /\ scanner = NoScanner
    /\ stack = <<>>
    /\ entry = NoEntry
    /\ cbRet = NoRet
    /\ scanFiles = <<>>
    /\ scanErr = FALSE
    /\ visited = 0
    /\ cfg = [concurrency |-> 0, level |-> 0]
    /\ level = 0
    /\ concurrency = 0
    /\ files = <<>>
    /\ env = NoEnv
    /\ ctxDone = FALSE
    /\ jobs = <<>>
    /\ jobsClosed = FALSE
    /\ results = <<>>
    /\ resultsClosed = FALSE
    /\ pcProducer = "none"
    /\ fileIdx = 1
    /\ pending = NoPending
    /\ fileCond = NoCond
    /\ pcWorker = <<>>
    /\ job = <<>>
    /\ review = <<>>
    /\ wg = 0
    /\ pcCloser = "none"
    /\ pcCollector = "none"
    /\ allResults = <<>>
    /\ panicked = FALSE
    /\ calls = <<>>
    /\ jobSends = <<>>
    /\ resultSends = <<>>
    /\ deqBefore = {}
    /\ deqAfter = {}
    /\ workerDropped = {}
    /\ producerDropped = {}
    /\ lateJobSends = 0
    /\ lateOpens = 0
    /\ closes = 0
    /\ callLevels = {}
    /\ main \in {[NoMain EXCEPT !.pc = "loop", !.n = n, !.i = 1] : n \in 1 .. MaxTasks}
    /\ report = NoReport

BatchNext ==
    \/ ExecLoopHead
    \/ ExecTaskReturned
    \/ TaskEndsEarly
    \/ TaskStartsTUI
    \/ BgFinish
    \/ TuiQuit
    \/ TuiFail
    \/ MainSelectDone
    \/ MainSelectCtx
    \/ Alive /\ Cancel

BatchSpec == BatchInit /\ [][BatchNext]_vars

\* ------------------------------------------------------- report file name
\* Names are sequences of single characters here.
MaxNameLen == 4

NameChars == {".", "/", "\\", "a", "m", "d", "M"}

\* The names a user can give with --report-name, up to MaxNameLen characters.
CustomNames == UNION {[1 .. n -> NameChars] : n \in 0 .. MaxNameLen}

\* time.Now().Format("20060102-150405"): digits and one hyphen.
Timestamps ==
    { <<"2", "0", "0", "6", "0", "1", "0", "2", "-", "1", "5", "0", "4", "0", "5">>,
      <<"2", "0", "2", "6", "1", "1", "0", "3", "-", "0", "0", "0", "0", "0", "0">> }

\* fmt.Sprintf("review_report_%s.md", timestamp)
DefaultReportName(timestamp) ==
    <<"r", "e", "v", "i", "e", "w", "_", "r", "e", "p", "o", "r", "t", "_">>
        \o timestamp \o <<".", "m", "d">>

\* filepath.Base on a system whose separator is '/': trailing separators are
\* dropped, then everything up to the last separator; "" gives "." and a
\* name of separators only gives "/".
RECURSIVE TrimTrailingSlashes(_)
TrimTrailingSlashes(name) ==
    IF Len(name) > 0 /\ name[Len(name)] = "/"
    THEN TrimTrailingSlashes(SubSeq(name, 1, Len(name) - 1))
    ELSE name

Base(name) ==
    IF name = <<>> THEN <<".">>
    ELSE LET t == TrimTrailingSlashes(name)
             slashes == {i \in 1 .. Len(t) : t[i] = "/"}
         IN  IF t = <<>> THEN <<"/">>
             ELSE IF slashes = {} THEN t
             ELSE SubSeq(t, (CHOOSE i \in slashes : \A j \in slashes : j <= i) + 1, Len(t))

\* strings.ReplaceAll(name, "..", ""): the non-overlapping occurrences, found
\* from the left, are removed.
RECURSIVE RemoveDotDotOnce(_)
RemoveDotDotOnce(name) ==
    IF Len(name) < 2 THEN name
    ELSE IF name[1] = "." /\ name[2] = "." THEN RemoveDotDotOnce(SubSeq(name, 3, Len(name)))
    ELSE <<name[1]>> \o RemoveDotDotOnce(Tail(name))

\* for strings.Contains(name, "..") { name = strings.ReplaceAll(name, "..", "") }
RECURSIVE RemoveDotDot(_)
RemoveDotDot(name) ==
    IF Contains(name, <<".", ".">>) THEN RemoveDotDot(RemoveDotDotOnce(name)) ELSE name

\* strings.ReplaceAll(name, c, "") for a single character c
RemoveChar(name, c) == SelectSeq(name, LAMBDA x : x # c)

\* strings.ToLower, character by character
ToLowerChar(c) == IF c = "M" THEN "m" ELSE IF c = "D" THEN "d" ELSE c

\* strings.HasSuffix(strings.ToLower(name), ".md")
HasMdSuffix(name) ==
    /\ Len(name) >= 3
    /\ [i \in 1 .. 3 |-> ToLowerChar(name[Len(name) - 3 + i])] = <<".", "m", "d">>

sanitizeFileName(name, timestamp) ==
    IF name = <<>> THEN DefaultReportName(timestamp)
    ELSE LET based == Base(name)
             undotted == RemoveDotDot(based)
             cleaned == RemoveChar(RemoveChar(undotted, "/"), "\\")
         IN  IF cleaned = <<>> \/ cleaned = <<".", "m", "d">>
             THEN DefaultReportName(timestamp)
             ELSE IF ~HasMdSuffix(cleaned) THEN cleaned \o <<".", "m", "d">>
             ELSE cleaned

\* reportFileName := sanitizeFileName(customName), at the start of
\* GenerateMarkdownReport.
SanitizeCall ==
    /\ report.reportFileName = <<>>
    /\ \E t \in Timestamps :
          report' = [report EXCEPT !.reportFileName = sanitizeFileName(report.customName, t)]
    /\ UNCHANGED <<progVars, histVars, engineVars, scanVars, main>>

\* A report is asked for under a name the user gave; nothing else is looked at.
SanitizeInit ==
    /\ pcRun = "engine"
    /\ scanIn = NoScanIn
    /\ scanner = NoScanner
    /\ stack = <<>>
    /\ entry = NoEntry
    /\ cbRet = NoRet
    /\ scanFiles = <<>>
    /\ scanErr = FALSE
    /\ visited = 0
    /\ cfg = [concurrency |-> 0, level |-> 0]
    /\ level = 0
    /\ concurrency = 0
    /\ files = <<>>
    /\ env = NoEnv
    /\ ctxDone = FALSE
    /\ jobs = <<>>
    /\ jobsClosed = FALSE
    /\ results = <<>>
    /\ resultsClosed = FALSE
    /\ pcProducer = "none"
    /\ fileIdx = 1
    /\ pending = NoPending
    /\ fileCond = NoCond
    /\ pcWorker = <<>>
    /\ job = <<>>
    /\ review = <<>>
    /\ wg = 0
    /\ pcCloser = "none"
    /\ pcCollector = "none"
    /\ allResults = <<>>
    /\ panicked = FALSE
    /\ calls = <<>>
    /\ jobSends = <<>>
    /\ resultSends = <<>>
    /\ deqBefore = {}
    /\ deqAfter = {}
    /\ workerDropped = {}
    /\ producerDropped = {}
    /\ lateJobSends = 0
    /\ lateOpens = 0
    /\ closes = 0
    /\ callLevels = {}
    /\ main = NoMain
    /\ report \in {[NoReport EXCEPT !.customName = n] : n \in CustomNames}

SanitizeNext == SanitizeCall

SanitizeSpec == SanitizeInit /\ [][SanitizeNext]_vars

\* ------------------------------------------------ long candidate lists
\* Runs of Start where fewer workers get longer candidate lists: with a
\* single worker the list is longer than everything the two channels, the
\* producer and the worker can hold at once (2 * concurrency + 2 files).
LongListLen == MaxFiles + 2 - concurrency

QueueInit ==
    /\ concurrency \in 1 .. MaxConcurrency
    /\ files \in {[i \in 1 .. n |-> i] :
                    n \in 0 .. LongListLen}
    /\ ctxDone = FALSE
    /\ jobs = <<>>
    /\ jobsClosed = FALSE
    /\ results = <<>>
    /\ resultsClosed = FALSE
    /\ pcProducer = "check"
    /\ fileIdx = 1
    /\ pending = NoPending
    /\ fileCond = NoCond
    /\ env = NoEnv
    /\ pcWorker = [w \in Workers |-> "recv"]
    /\ job = [w \in Workers |-> NoJob]
    /\ review = [w \in Workers |-> NoReview]
    /\ wg = NumWorkers
    /\ pcCloser = "wait"
    /\ pcCollector = "range"
    /\ allResults = <<>>
    /\ panicked = FALSE
    /\ calls = [p \in 1 .. Len(files) |-> 0]
    /\ jobSends = [p \in 1 .. Len(files) |-> 0]
    /\ resultSends = [p \in 1 .. Len(files) |-> 0]
    /\ deqBefore = {}
    /\ deqAfter = {}
    /\ workerDropped = {}
    /\ producerDropped = {}
    /\ lateJobSends = 0
    /\ lateOpens = 0
    /\ closes = 0
    /\ callLevels = {}
    /\ ExecIdle
    /\ EngineDefault
    /\ ScanOver

QueueSpec == QueueInit /\ [][Next]_vars

\* ================================================================== claims
\* Every Result whose send on the results channel completed, oldest first:
\* those the collector has received, then those still buffered.
Delivered == allResults \o results

\* How often a path occurs in a sequence of Results.
Occurs(seq, p) == Cardinality({i \in 1 .. Len(seq) : seq[i].FilePath = p})

AllWorkersDone == \A w \in Workers : pcWorker[w] = "done"

Terminated == pcProducer = "done" /\ jobsClosed /\ AllWorkersDone /\ resultsClosed

\* C1: in a run that has not been cancelled the collector never receives a
\* path twice, and when it sees the results channel closed it has received
\* exactly one Result for each of the n candidate paths.
Thm_C1 ==
    ~ctxDone =>
        /\ \A p \in Paths : Occurs(allResults, p) <= 1
        /\ pcCollector = "done" =>
              /\ Len(allResults) = Len(files)
              /\ \A p \in Paths : Occurs(allResults, p) = 1

\* C1 witness: an uncancelled run over three or more paths with two workers
\* has ended with a read error, a too-large skip and an analysis failure.
Wit_C1 ==
    /\ ~ctxDone
    /\ pcCollector = "done"
    /\ Len(files) >= 3
    /\ concurrency >= 2
    /\ \E i, j, k \in 1 .. Len(allResults) :
          /\ allResults[i].SkipReason = SkipReasonReadErr
          /\ allResults[j].SkipReason = SkipReasonTooLarge
          /\ allResults[k].SkipReason = SkipReasonNone /\ allResults[k].Error

\* C2: no goroutine ever sends on the results channel after it was closed
\* (the send-on-closed-channel panic is unreachable).
Cex_C2 == ~panicked

\* C3: results is closed at most once, and the closer passes wg.Wait() and
\* closes results only when every worker goroutine has returned.
Thm_C3 ==
    /\ closes <= 1
    /\ (pcCloser = "close" \/ resultsClosed) => AllWorkersDone

\* C3 witness: results has been closed in a cancelled run of two or more
\* workers, one of which left through a cancellation branch.
Wit_C3 ==
    /\ resultsClosed
    /\ closes = 1
    /\ concurrency >= 2
    /\ workerDropped # {}

\* C4 (as claimed): a job dequeued before the cancellation signal is never
\* abandoned by its worker without a Result.
Cex_C4 == \A p \in deqBefore : p \notin workerDropped

\* C4 (amended): a worker abandons a dequeued job without a Result only when
\* cancellation has been signalled; every dequeued job is in exactly one of
\* three situations: still held by a running worker, answered by exactly one
\* Result after exactly one ReviewCode call, or abandoned.
Thm_C4 ==
    /\ workerDropped # {} => ctxDone
    /\ \A p \in deqBefore \cup deqAfter :
          LET held == \E w \in Workers : pcWorker[w] \in {"check", "review", "send"}
                                         /\ job[w].FilePath = p
              sent == resultSends[p] >= 1
              dropped == p \in workerDropped
          IN  \/ held /\ ~sent /\ ~dropped
              \/ ~held /\ sent /\ ~dropped /\ resultSends[p] = 1 /\ calls[p] = 1
              \/ ~held /\ ~sent /\ dropped

\* C4 witness: a job dequeued before cancellation went through its ReviewCode
\* call and was then abandoned at the result select.
Wit_C4 ==
    /\ ctxDone
    /\ \E p \in deqBefore : p \in workerDropped /\ calls[p] = 1

\* C5 (as claimed): the producer never discards a terminal outcome that
\* readFile has computed.
Cex_C5 == producerDropped = {}

\* C5 (amended): the producer discards a computed terminal outcome only when
\* cancellation has been signalled; every path it has moved past was handed
\* over as a Job or as a Result, and an uncancelled producer ends only after
\* the whole list.
Thm_C5 ==
    /\ producerDropped # {} => ctxDone
    /\ \A p \in Paths : p < fileIdx => (jobSends[p] = 1 \/ resultSends[p] = 1)
    /\ (pcProducer = "done" /\ ~ctxDone) => fileIdx = Len(files) + 1

\* C5 witness: the producer held a read error or too-large outcome, took the
\* ctx.Done case and returned without sending it.
Wit_C5 ==
    /\ ctxDone
    /\ ~panicked
    /\ pcProducer = "done"
    /\ fileIdx <= Len(files)
    /\ files[fileIdx] \in producerDropped
    /\ pending.err

\* C6 (as claimed): once ctx is cancelled the producer starts no readFile and
\* completes no send on the job channel.
Cex_C6 == lateJobSends = 0 /\ lateOpens = 0

\* C6 (amended): after ctx is cancelled the producer starts at most one more
\* readFile and completes at most one more send on the job channel (those of
\* the iteration in progress), after which it is at the loop-top check or has
\* returned.
Thm_C6 ==
    /\ lateOpens <= 1
    /\ lateJobSends <= 1
    /\ lateJobSends = 1 => pcProducer \in {"check", "done"}

\* C6 witness: the producer both opened a file and sent its Job after the
\* cancellation.
Wit_C6 == lateOpens = 1 /\ lateJobSends = 1 /\ pcProducer = "done"

\* C7: in a cancelled run at most n Results are delivered on the results
\* channel and no path is delivered more than once.
Thm_C7 ==
    ctxDone =>
        /\ Len(Delivered) <= Len(files)
        /\ \A p \in Paths : Occurs(Delivered, p) <= 1 /\ resultSends[p] <= 1

\* C7 witness: a cancelled run has ended with some Results delivered and at
\* least one job abandoned.
Wit_C7 ==
    /\ ctxDone
    /\ resultsClosed
    /\ Len(Delivered) >= 2
    /\ Len(Delivered) < Len(files)
    /\ workerDropped # {}

\* C8: under fair scheduling with a collector that keeps receiving, a run
\* that is never cancelled reaches the state where the producer has returned,
\* jobs is closed, every worker has returned and results is closed.
Thm_C8 == <>(ctxDone \/ Terminated)

\* C8 witness: an uncancelled run over a list longer than both channel
\* capacities has terminated and the collector has seen the close.
Wit_C8 ==
    /\ ~ctxDone
    /\ Terminated
    /\ pcCollector = "done"
    /\ Len(files) > ResultsCap
    /\ Len(files) > JobsCap

\* C9: under fair scheduling of the engine's goroutines, cancellation leads
\* to the producer and every worker having returned and results being closed,
\* even when the collector stops receiving.
Thm_C9 == ctxDone ~> Terminated

\* C9 witness: a cancelled run has terminated although the results buffer is
\* full and the collector never received anything.
Wit_C9 ==
    /\ ctxDone
    /\ Terminated
    /\ Len(results) = ResultsCap
    /\ allResults = <<>>
    /\ pcCollector = "range"
    /\ workerDropped # {}

\* C10: no ReviewCode call is started for a job that a worker dequeued after
\* the cancellation signal.
Thm_C10 == \A p \in deqAfter : calls[p] = 0

\* C10 witness: a worker dequeued a job after the cancellation and returned
\* at its check without calling ReviewCode.
Wit_C10 ==
    \E w \in Workers :
        /\ pcWorker[w] = "done"
        /\ job[w].FilePath \in deqAfter
        /\ job[w].FilePath \in workerDropped

\* C11: the job channel is closed exactly when the producer has returned and
\* stays closed; no send on it completes once it is closed; and a worker
\* returns in a run that is not cancelled only when the job channel is closed
\* and empty.
Thm_C11 ==
    [][ /\ jobsClosed' <=> pcProducer' = "done"
        /\ jobsClosed => (jobsClosed' /\ jobSends' = jobSends /\ Len(jobs') <= Len(jobs))
        /\ \A w \in Workers :
              (~ctxDone' /\ pcWorker[w] # "done" /\ pcWorker'[w] = "done") =>
                  (jobsClosed /\ Len(jobs) = 0) ]_vars

\* C11 witness: an uncancelled run in which every path became a Job has its
\* producer returned, the job channel closed and every worker out of its loop.
Wit_C11 ==
    /\ ~ctxDone
    /\ jobsClosed
    /\ pcProducer = "done"
    /\ AllWorkersDone
    /\ Len(files) >= 2
    /\ \A p \in Paths : jobSends[p] = 1

\* The terminal Results (read error or too-large skip) sent for a path.
ProducerResults(p) ==
    Cardinality({i \in 1 .. Len(Delivered) :
                    Delivered[i].FilePath = p /\ Delivered[i].SkipReason # SkipReasonNone})

\* C12: in a run that is not cancelled, every path the producer has moved
\* past was answered by exactly one Job or exactly one terminal Result, never
\* both and never neither; the paths still ahead have neither.
Thm_C12 ==
    ~ctxDone =>
        \A p \in Paths :
            /\ p < fileIdx => jobSends[p] + ProducerResults(p) = 1
            /\ p >= fileIdx => jobSends[p] + ProducerResults(p) = 0

\* C12 witness: an uncancelled producer has finished a list of three or more
\* paths, some sent as Jobs and some answered by a terminal Result.
Wit_C12 ==
    /\ ~ctxDone
    /\ pcProducer = "done"
    /\ Len(files) >= 3
    /\ \E p, q \in Paths : jobSends[p] = 1 /\ ProducerResults(q) = 1

\* What readFile can observe of the file it is reading.
ExceedsAtStat(c) == c.open /\ c.stat /\ c.statSize > MaxFileSize

ExceedsAtRead(c) ==
    c.open /\ c.stat /\ c.statSize <= MaxFileSize /\ c.read /\ c.readSize > MaxFileSize

TooLarge(c) == ExceedsAtStat(c) \/ ExceedsAtRead(c)

IOFailed(c) == c # NoCond /\ (~c.open \/ ~c.stat \/ ~c.read)

\* The bytes io.ReadAll returns through the LimitReader of MaxFileSize + 1.
BytesRead(c) == Min(c.readSize, MaxFileSize + 1)

\* Every Result sent with the given skip reason belongs to a path that was
\* never sent as a Job and never analysed.
NeverAJob(reason) ==
    \A i \in 1 .. Len(Delivered) :
        Delivered[i].SkipReason = reason =>
            /\ Delivered[i].Error /\ ~Delivered[i].Review
            /\ jobSends[Delivered[i].FilePath] = 0
            /\ calls[Delivered[i].FilePath] = 0

\* C13 (as claimed): a file found to exceed MaxFileSize always yields a
\* too-large Result: the producer holds that outcome, never sends a Job or
\* starts a call for it, does not read it when stat shows the excess, and
\* never gives the outcome up.
Cex_C13 ==
    TooLarge(fileCond) =>
        /\ pending.skipReason = SkipReasonTooLarge
        /\ ExceedsAtStat(fileCond) => ~pending.didRead
        /\ jobSends[files[fileIdx]] = 0 /\ calls[files[fileIdx]] = 0
        /\ files[fileIdx] \notin producerDropped

\* C13 (amended): a file whose stat size, or whose limited read, exceeds
\* MaxFileSize gets the too-large outcome from readFile, without any read
\* when stat shows the excess; it is never sent as a Job and never analysed;
\* and the producer leaves it only by sending that Result, or by returning
\* without a Result once the run is cancelled.
Thm_C13 ==
    [][ /\ NeverAJob(SkipReasonTooLarge) /\ NeverAJob(SkipReasonTooLarge)'
        /\ TooLarge(fileCond) =>
              /\ pending.err /\ pending.skipReason = SkipReasonTooLarge
              /\ pending.fileSize > MaxFileSize
              /\ ExceedsAtStat(fileCond) => ~pending.didRead
              /\ pcProducer \in {"sendResult", "done"}
              /\ pcProducer = "done" => ctxDone
              /\ jobSends[files[fileIdx]] = 0 /\ calls[files[fileIdx]] = 0
              /\ jobSends' = jobSends
              /\ fileIdx' # fileIdx =>
                    /\ Len(results') = Len(results) + 1
                    /\ results'[Len(results')].FilePath = files[fileIdx]
                    /\ results'[Len(results')].SkipReason = SkipReasonTooLarge
                    /\ results'[Len(results')].Error ]_vars

\* C13 witness: stat reports MaxFileSize + 1 bytes and the producer holds the
\* too-large outcome without having read the file.
Wit_C13 ==
    /\ pcProducer = "sendResult"
    /\ ExceedsAtStat(fileCond)
    /\ fileCond.statSize = MaxFileSize + 1
    /\ pending.skipReason = SkipReasonTooLarge
    /\ ~pending.didRead

\* C14: every Job in the job channel or in a worker's hands has at most
\* MaxFileSize bytes; a file that opens, stats and reads without error is
\* returned as Job content exactly when its stat size and the bytes read
\* are both at most MaxFileSize, the content then being the bytes read; a
\* file found larger at read time is skipped with the size read.
Thm_C14 ==
    /\ \A i \in 1 .. Len(jobs) : jobs[i].Content <= MaxFileSize
    /\ \A w \in Workers : job[w].Content <= MaxFileSize
    /\ (fileCond # NoCond /\ fileCond.open /\ fileCond.stat /\ fileCond.read) =>
          /\ ~pending.err <=>
                (fileCond.statSize <= MaxFileSize /\ BytesRead(fileCond) <= MaxFileSize)
          /\ ~pending.err => pending.content = BytesRead(fileCond)
          /\ pcProducer = "sendJob" <=> (~pending.err /\ pcProducer # "done")
    /\ ExceedsAtRead(fileCond) =>
          /\ pending.skipReason = SkipReasonTooLarge
          /\ pending.fileSize = BytesRead(fileCond)

\* C14 witness: a file of exactly MaxFileSize bytes is waiting as a Job while
\* the next file, grown after its stat, is skipped with MaxFileSize + 1.
Wit_C14 ==
    /\ \E i \in 1 .. Len(jobs) : jobs[i].Content = MaxFileSize
    /\ ExceedsAtRead(fileCond)
    /\ pending.skipReason = SkipReasonTooLarge
    /\ pending.fileSize = MaxFileSize + 1

\* C16 (as claimed): an I/O failure of open, stat or read always makes the
\* producer emit a read-error Result and go on: it holds that outcome, never
\* sends a Job or starts a call for the path, and never gives the outcome up.
Cex_C16 ==
    IOFailed(fileCond) =>
        /\ pending.skipReason = SkipReasonReadErr /\ pending.err
        /\ jobSends[files[fileIdx]] = 0 /\ calls[files[fileIdx]] = 0
        /\ files[fileIdx] \notin producerDropped

\* C16 (amended): an I/O failure of open, stat or read gives the read-error
\* outcome; the path is never sent as a Job and never analysed; the producer
\* leaves it only by sending that Result and going on to the loop-top check
\* for the next path, or by returning without a Result once the run is
\* cancelled.
Thm_C16 ==
    [][ /\ NeverAJob(SkipReasonReadErr) /\ NeverAJob(SkipReasonReadErr)'
        /\ IOFailed(fileCond) =>
              /\ pending.err /\ pending.skipReason = SkipReasonReadErr
              /\ pcProducer \in {"sendResult", "done"}
              /\ pcProducer = "done" => ctxDone
              /\ jobSends[files[fileIdx]] = 0 /\ calls[files[fileIdx]] = 0
              /\ jobSends' = jobSends
              /\ fileIdx' # fileIdx =>
                    /\ fileIdx' = fileIdx + 1
                    /\ pcProducer' = "check"
                    /\ Len(results') = Len(results) + 1
                    /\ results'[Len(results')].FilePath = files[fileIdx]
                    /\ results'[Len(results')].SkipReason = SkipReasonReadErr
                    /\ results'[Len(results')].Error ]_vars

\* C16 witness: the read of a file failed after a successful stat, its
\* read-error Result is the last one sent and the producer is at the loop-top
\* check of the next path.
Wit_C16 ==
    /\ pcProducer = "check"
    /\ fileIdx = 2
    /\ Len(files) >= 2
    /\ Len(results) >= 1
    /\ results[Len(results)].FilePath = files[1]
    /\ results[Len(results)].SkipReason = SkipReasonReadErr
    /\ results[Len(results)].FileSize = MaxFileSize

\* The Results of analysed files for path p that were sent so far.
WorkerResults(p) ==
    {i \in 1 .. Len(Delivered) :
        Delivered[i].FilePath = p /\ Delivered[i].SkipReason = SkipReasonNone}

\* Workers whose ReviewCode call is in flight.
InFlight == {w \in DOMAIN pcWorker : pcWorker[w] = "review"}

\* C15 (as claimed): a worker whose ReviewCode call failed always records the
\* failure as a Result and goes on: it never stops with that Result unsent.
Cex_C15 ==
    \A w \in Workers :
        review[w].Error =>
            (pcWorker[w] # "done" /\ job[w].FilePath \notin workerDropped)

\* C15 (amended): a failed ReviewCode call is not fatal: the worker holds a
\* Result with an error and no review for the path, the path is not called
\* again, no path gets more than one worker Result, the failure stops
\* neither the process nor the worker (which returns only once the run is
\* cancelled), and when the worker leaves the job it has sent exactly that
\* Result and is back at the range loop; the outcome of a call changes
\* nothing but the worker's own review.
Thm_C15 ==
    [][ /\ \A p \in Paths : Cardinality(WorkerResults(p)) <= 1
        /\ (\E w \in Workers : pcWorker[w] = "review" /\ pcWorker'[w] # "review") =>
              UNCHANGED <<outerVars, files, env, concurrency, ctxDone, jobs, jobsClosed,
                          results, resultsClosed, pcProducer, fileIdx, pending,
                          fileCond, job, wg, pcCloser, pcCollector, allResults,
                          panicked, histVars>>
        /\ \A w \in Workers :
              review[w].Error =>
                  /\ ~review[w].Review
                  /\ pcWorker[w] \in {"send", "done"}
                  /\ pcWorker[w] = "done" => ctxDone
                  /\ calls[job[w].FilePath] = 1
                  /\ calls'[job[w].FilePath] = 1
                  /\ WorkerResults(job[w].FilePath) = {}
                  /\ pcWorker'[w] \notin {"send", "done"} =>
                        /\ pcWorker'[w] = "recv"
                        /\ ~panicked'
                        /\ results' = Append(results,
                              [FilePath |-> job[w].FilePath, FileSize |-> 0,
                               Review |-> FALSE, Error |-> TRUE,
                               SkipReason |-> SkipReasonNone]) ]_vars

\* C15 witness: an uncancelled run of three files has ended with the first
\* and third reviewed and the second failed in ReviewCode.
Wit_C15 ==
    /\ ~ctxDone
    /\ pcCollector = "done"
    /\ Len(files) = 3
    /\ Len(allResults) = 3
    /\ \A i \in 1 .. 3 :
          /\ allResults[i].SkipReason = SkipReasonNone
          /\ allResults[i].Error <=> allResults[i].FilePath = 2
          /\ allResults[i].Review <=> allResults[i].FilePath # 2

\* C17: exactly `concurrency` workers exist, and the number of ReviewCode
\* calls in flight never exceeds concurrency (so at most one when it is 1).
Thm_C17 ==
    /\ Cardinality(DOMAIN pcWorker) = concurrency
    /\ wg <= concurrency
    /\ Cardinality(InFlight) <= concurrency
    /\ concurrency = 1 => Cardinality(InFlight) <= 1

\* C17 witness: with concurrency 2 both workers are inside ReviewCode while a
\* third file is waiting.
Wit_C17 ==
    /\ concurrency = 2
    /\ Cardinality(InFlight) = 2
    /\ Len(files) = 3
    /\ Len(jobs) = 1

\* C18: a path is sent as a Job at most once, is in the job channel or in
\* the hands of a worker at most once, and gets at most one ReviewCode call,
\* also when that call fails.
Thm_C18 ==
    \A p \in Paths :
        /\ jobSends[p] <= 1
        /\ Occurs(jobs, p) + Cardinality({w \in Workers : job[w].FilePath = p}) <= 1
        /\ calls[p] <= 1
        /\ calls[p] <= jobSends[p]

\* C18 witness: with two workers, a failed call's Result has been sent, its
\* worker is receiving again and the path still has a single call.
Wit_C18 ==
    /\ concurrency = 2
    /\ ~ctxDone
    /\ \E i \in 1 .. Len(Delivered) :
          /\ Delivered[i].SkipReason = SkipReasonNone
          /\ Delivered[i].Error
          /\ calls[Delivered[i].FilePath] = 1
          /\ \A w \in Workers : job[w].FilePath # Delivered[i].FilePath
    /\ \A w \in Workers : pcWorker[w] = "recv"

\* C19 (as claimed): when the collector can receive nothing more, because it
\* has seen the end of the stream or because the process has ended, every
\* Result whose send completed has been received.
Cex_C19 == (panicked \/ pcCollector = "done") => results = <<>>

\* The Result the collector gets for path p in the environment e.
ExpectedResult(e, p) ==
    IF readFile(e[p].cond).err
    THEN ProducerResult(p, readFile(e[p].cond))
    ELSE WorkerResult([FilePath |-> p, Content |-> readFile(e[p].cond).content],
                      [Review |-> e[p].ok, Error |-> ~e[p].ok])

\* C20: in an uncancelled run with a deterministic AnalysisService the
\* Results the collector has when the stream ends are, as a set and in
\* number, those fixed by the files alone, whatever the concurrency (1 or
\* more) and the scheduling.
Thm_C20 ==
    pcCollector = "done" =>
        /\ Len(allResults) = Len(files)
        /\ {allResults[i] : i \in 1 .. Len(allResults)} =
              {ExpectedResult(env, p) : p \in Paths}

\* C20 witness: with two workers a run of a reviewed, a failed and a skipped
\* file has ended, the collector having received them out of list order.
Wit_C20 ==
    /\ pcCollector = "done"
    /\ concurrency = 2
    /\ Len(files) = 3
    /\ env[1].ok /\ ~readFile(env[1].cond).err
    /\ ~env[2].ok
    /\ readFile(env[3].cond).skipReason = SkipReasonTooLarge
    /\ allResults[1].FilePath = 3
    /\ allResults[2].FilePath = 2
    /\ allResults[3].FilePath = 1

\* The size readFile observes for a file it could stat: the bytes it read,
\* or the stat size when it read nothing.
ObservedSize(c) ==
    IF c.statSize <= MaxFileSize /\ c.read THEN BytesRead(c) ELSE c.statSize

\* C21 (as claimed): every Result whose send completed carries the path of
\* one of the candidates, and its FileSize is the observed size of the file
\* whenever the file could be stat-ed.
Cex_C21 ==
    \A i \in 1 .. Len(Delivered) :
        /\ Delivered[i].FilePath \in Paths
        /\ (env[Delivered[i].FilePath].cond.open /\ env[Delivered[i].FilePath].cond.stat) =>
              Delivered[i].FileSize = ObservedSize(env[Delivered[i].FilePath].cond)

\* C22: an engine built from a concurrency of zero or less runs exactly
\* DefaultConcurrency (5) workers, one built from a positive concurrency
\* runs that many, and so every engine runs at least one worker.
Thm_C22 ==
    /\ cfg.concurrency <= 0 =>
          (concurrency = 5 /\ Cardinality(DOMAIN pcWorker) = 5)
    /\ cfg.concurrency > 0 =>
          (concurrency = cfg.concurrency /\ Cardinality(DOMAIN pcWorker) = cfg.concurrency)
    /\ Cardinality(DOMAIN pcWorker) >= 1

\* C22 witness: the engine was given concurrency 0 and its five workers have
\* all returned after a run over one file.
Wit_C22 ==
    /\ cfg.concurrency = 0
    /\ Cardinality(DOMAIN pcWorker) = 5
    /\ AllWorkersDone
    /\ resultsClosed
    /\ Len(files) = 1

\* C23: the level stored in the engine is within [MinLevel, MaxLevel], is
\* the given level when that is in range, never changes, and is the only
\* level ever passed to ReviewCode.
Thm_C23 ==
    [][ /\ level \in MinLevel .. MaxLevel
        /\ cfg.level \in MinLevel .. MaxLevel => level = cfg.level
        /\ level' = level
        /\ cfg' = cfg
        /\ callLevels \subseteq {level}
        /\ callLevels' \subseteq {level'} ]_vars

\* C23 witness: NewEngine was given a level above MaxLevel and a ReviewCode
\* call was made with the default level.
Wit_C23 ==
    /\ cfg.level = MaxLevel + 1
    /\ level = DefaultLevel
    /\ callLevels = {DefaultLevel}

\* The last component of a returned path.
Last(path) == path[Len(path)]

\* C24: NewScanner fails exactly when os.Stat of the root fails or the root
\* is not a directory; the run then ends with nothing scanned and no engine
\* started; and after a successful NewScanner no error ever comes back from
\* Scan, whatever errors the walk meets.
Thm_C24 ==
    /\ pcRun # "new" => (pcRun = "scanFailed" <=> scanIn.stat \in {"enoent", "error", "file"})
    /\ pcRun = "scanFailed" =>
          /\ scanErr /\ scanner = NoScanner
          /\ visited = 0 /\ scanFiles = <<>>
          /\ pcProducer = "none" /\ DOMAIN pcWorker = {} /\ Delivered = <<>>
    /\ pcRun # "scanFailed" => ~scanErr

\* C24 witness: Scan has returned without error from a walk whose last
\* entry was a directory that could not be read.
Wit_C24 ==
    /\ pcRun = "scanned"
    /\ ~scanErr
    /\ entry.readDirErr
    /\ visited = 2

\* C25 (as claimed): no returned file lies beneath a directory with an
\* excluded name, the scan root included.
Cex_C25 ==
    \A i \in 1 .. Len(scanFiles) :
        /\ scanIn.rootName \notin scanner.excludeDirs
        /\ \A j \in 1 .. (Len(scanFiles[i]) - 1) :
              scanFiles[i][j].name \notin scanner.excludeDirs

\* C25 (amended): below the root, a directory with an excluded name is never
\* descended into and no returned file has one among its ancestors; the
\* callback answers SkipDir for it and appends nothing.
Thm_C25 ==
    /\ \A k \in 2 .. Len(stack) : stack[k].name \notin scanner.excludeDirs
    /\ \A i \in 1 .. Len(scanFiles) :
          \A j \in 1 .. (Len(scanFiles[i]) - 1) :
              scanFiles[i][j].name \notin scanner.excludeDirs
    /\ (entry.kind = "dir" /\ entry.name \in scanner.excludeDirs) =>
          (cbRet.ret = "SkipDir" /\ ~cbRet.add /\ ~cbRet.entered)

\* C25 witness: the walk has just pruned a directory named build inside a
\* root with an ordinary name and an empty whitelist.
Wit_C25 ==
    /\ pcRun = "walk"
    /\ scanIn.rootName = <<"proj">>
    /\ scanIn.includeExts = <<>>
    /\ entry.kind = "dir"
    /\ entry.name = <<"build">>
    /\ cbRet.ret = "SkipDir"
    /\ stack[Len(stack)].last = NameIndex(entry.name)

\* strings.EqualFold on two extensions, and a whitelist entry with its dot.
EqualFold(a, b) == ToLower(a) = ToLower(b)

WithDot(x) == IF HasDotPrefix(x) THEN x ELSE <<".">> \o x

\* The extension of the name is acceptable for the whitelist given to
\* NewScanner.
ExtListed(name) ==
    \/ scanIn.includeExts = <<>>
    \/ \E x \in Range(scanIn.includeExts) : EqualFold(WithDot(x), Ext(name))

\* C26: exclusion is by equality of the base name: a regular file whose name
\* is not equal to an excluded name, that is not ignored, has an acceptable
\* extension and can be read without a NUL in its first 512 bytes is
\* returned, and a readable
\* directory whose name is not equal to an excluded name and that is not
\* ignored is descended into, whatever excluded names their names contain.
Thm_C26 ==
    /\ (/\ entry.kind = "file"
        /\ \A x \in scanner.excludeDirs : entry.name # x
        /\ ~entry.ignored
        /\ ExtListed(entry.name)
        /\ entry.open /\ entry.read /\ entry.nulAt \notin 0 .. (ProbeLen - 1)) =>
          (cbRet.add /\ Last(scanFiles) = cbRet.path)
    /\ (/\ entry.kind = "dir"
        /\ \A x \in scanner.excludeDirs : entry.name # x
        /\ ~entry.ignored
        /\ ~entry.readDirErr) =>
          (cbRet.ret = "nil" /\ cbRet.entered)

\* C26 witness: my.github.go inside the directory builder has been returned.
Wit_C26 ==
    /\ Len(scanFiles) >= 1
    /\ Len(Last(scanFiles)) = 2
    /\ Last(scanFiles)[1].name = <<"build", "er">>
    /\ Last(scanFiles)[2].name = <<"my", ".", "git", "hub", ".", "go">>
    /\ cbRet.add

\* C27 (as claimed): a file that cannot be opened or read when Scan probes it
\* is not appended to the returned list.
Cex_C27 ==
    (entry.kind = "file" /\ (~entry.open \/ ~entry.read)) => ~cbRet.add

\* C28 (as claimed): a file with a NUL byte in its first 512 bytes is never
\* appended to the returned list.
Cex_C28 ==
    (entry.kind = "file" /\ entry.nulAt \in 0 .. 511) => ~cbRet.add

\* C29: with a non-empty whitelist a file is returned only if its extension
\* equals, ignoring case, a whitelist entry taken with a leading dot; with
\* an empty whitelist a regular, readable file that passes every other
\* check is returned whatever its extension.
Thm_C29 ==
    /\ \A i \in 1 .. Len(scanFiles) :
          scanIn.includeExts # <<>> =>
              \E x \in Range(scanIn.includeExts) :
                  EqualFold(WithDot(x), Ext(Last(scanFiles[i]).name))
    /\ (cbRet.add /\ scanIn.includeExts # <<>>) =>
          \E x \in Range(scanIn.includeExts) : EqualFold(WithDot(x), Ext(entry.name))
    /\ (/\ scanIn.includeExts = <<>>
        /\ entry.kind = "file"
        /\ entry.name \notin scanner.excludeDirs
        /\ ~entry.ignored
        /\ entry.open /\ entry.read /\ entry.nulAt \notin 0 .. (ProbeLen - 1)) =>
          cbRet.add

\* C29 witness: with the whitelist GO, .md the files main.GO and
\* my.github.go of the root have been returned and the file tool has not.
Wit_C29 ==
    /\ scanIn.includeExts = << <<"GO">>, <<".", "md">> >>
    /\ Len(scanFiles) = 2
    /\ Last(scanFiles[1]).name = <<"main", ".", "GO">>
    /\ Last(scanFiles[2]).name = <<"my", ".", "git", "hub", ".", "go">>
    /\ entry.kind = "file"
    /\ entry.name = <<"tool">>
    /\ entry.name \notin scanner.excludeDirs
    /\ ~cbRet.add

\* C30: no component of a returned path is a symbolic link (the file is a
\* regular file and its ancestors are real directories), WalkDir is only
\* ever inside real directories, and a symbolic link is neither appended nor
\* entered.
Thm_C30 ==
    /\ \A i \in 1 .. Len(scanFiles) :
          /\ Last(scanFiles[i]).kind = "file"
          /\ \A j \in 1 .. (Len(scanFiles[i]) - 1) : scanFiles[i][j].kind = "dir"
    /\ \A k \in 1 .. Len(stack) : stack[k].kind = "dir"
    /\ entry.kind = "symlink" => (~cbRet.add /\ ~cbRet.entered)
    /\ (pcRun \in {"scanned", "empty", "engine", "clientFailed"}
          /\ scanIn.lstat = "symlink") => scanFiles = <<>>

\* C30 witness: inside a directory, after a file was returned, the walk has
\* passed a symbolic link to a directory without entering it.
Wit_C30 ==
    /\ pcRun = "walk"
    /\ entry.kind = "symlink"
    /\ entry.target = "dir"
    /\ Len(stack) = 2
    /\ Len(cbRet.path) = 2
    /\ Len(scanFiles) = 1
    /\ cbRet.ret = "nil"

\* ---------------------------------------------------- strictness defaults
\* run.go: const defaultLevel = 2; part_006 (LLM client): DefaultLevel = 3,
\* the same value as the engine's DefaultLevel.
defaultLevel == 2

\* README, table of the `--l` flag and the level table: level 2 is "(默认)".
ReadmeDefaultLevel == 2

\* run.go getValidLevel
getValidLevel(l) ==
    IF l < MinLevel \/ l > MaxLevel THEN defaultLevel ELSE l

\* llm client normalizeLevel
normalizeLevel(l) ==
    IF l < MinLevel THEN DefaultLevel
    ELSE IF l > MaxLevel THEN DefaultLevel
    ELSE l

\* C32: for a level outside [1,6] the CLI (getValidLevel), NewEngine (the
\* engine's stored level) and the LLM client (normalizeLevel) all yield the
\* default the README documents, level 2.
Cex_C32 ==
    (cfg.level < MinLevel \/ cfg.level > MaxLevel) =>
        /\ getValidLevel(cfg.level) = ReadmeDefaultLevel
        /\ level = ReadmeDefaultLevel
        /\ normalizeLevel(cfg.level) = ReadmeDefaultLevel

\* ------------------------------------------------------- shapes of a Result
Reviewed(r) == r.Review /\ ~r.Error /\ r.SkipReason = SkipReasonNone

TooLargeSkip(r) == r.SkipReason = SkipReasonTooLarge /\ r.Error /\ ~r.Review

ReadFailure(r) == r.SkipReason = SkipReasonReadErr /\ r.Error /\ ~r.Review

AnalysisFailure(r) == r.Error /\ ~r.Review /\ r.SkipReason = SkipReasonNone

\* C33: every Result sent on the results channel has exactly one of the four
\* shapes reviewed, too-large skip, read failure, analysis failure; it has a
\* Review or an Error and never both; a Result with a SkipReason is for a
\* path the producer answered itself (no Job was sent for it).
Thm_C33 ==
    \A i \in 1 .. Len(Delivered) :
        LET r == Delivered[i]
        IN  /\ Cardinality({s \in {"reviewed", "tooLarge", "readFailure", "analysisFailure"} :
                    \/ s = "reviewed" /\ Reviewed(r)
                    \/ s = "tooLarge" /\ TooLargeSkip(r)
                    \/ s = "readFailure" /\ ReadFailure(r)
                    \/ s = "analysisFailure" /\ AnalysisFailure(r)}) = 1
            /\ r.Review # r.Error
            /\ r.SkipReason # SkipReasonNone => jobSends[r.FilePath] = 0
            /\ r.SkipReason = SkipReasonNone => jobSends[r.FilePath] = 1

\* C33 witness: the collector holds three Results of one run: a skip emitted
\* by the producer, an analysis failure and a reviewed one.
Wit_C33 ==
    /\ Len(allResults) = 3
    /\ \E i \in 1 .. 3 : TooLargeSkip(allResults[i]) \/ ReadFailure(allResults[i])
    /\ \E i \in 1 .. 3 : AnalysisFailure(allResults[i])
    /\ \E i \in 1 .. 3 : Reviewed(allResults[i])

\* ------------------------------------------------------ contents in memory
\* The file contents alive at once: the Jobs buffered in the job channel, the
\* content the producer has read and is about to send, and the Job each
\* worker holds until it has sent its Result.
Held ==
    Len(jobs)
    + (IF pcProducer = "sendJob" THEN 1 ELSE 0)
    + Cardinality({w \in Workers : job[w] # NoJob})

\* C34: the job channel never holds more than concurrency Jobs, the results
\* channel never more than 2 * concurrency Results, and at most
\* 2 * concurrency + 1 file contents are held at once, also when the
\* candidate list is longer than that.
Thm_C34 ==
    /\ Len(jobs) <= concurrency
    /\ Len(results) <= 2 * concurrency
    /\ Held <= 2 * concurrency + 1

\* C34 witness: with more candidates than 2 * concurrency + 1, the job
\* channel is full, every worker holds a Job, the producer holds one more
\* content that it cannot send yet, and a file is still waiting to be read.
Wit_C34 ==
    /\ Len(files) > 2 * concurrency + 1
    /\ Len(jobs) = concurrency
    /\ Held = 2 * concurrency + 1
    /\ fileIdx < Len(files)
    /\ ~ctxDone

\* ------------------------------------------------- order with one worker
\* C36: with concurrency = 1 the Results of the worker are sent in the order
\* of their paths in the candidate list; wherever a Result was sent before
\* the Result of an earlier path, the one sent first came from the producer
\* (it has a SkipReason) and the one it overtook came from the worker.
Thm_C36 ==
    concurrency = 1 =>
        \A i, j \in 1 .. Len(Delivered) :
            i < j =>
                /\ (Delivered[i].SkipReason = SkipReasonNone
                        /\ Delivered[j].SkipReason = SkipReasonNone)
                      => Delivered[i].FilePath < Delivered[j].FilePath
                /\ Delivered[i].FilePath > Delivered[j].FilePath
                      => /\ Delivered[i].SkipReason # SkipReasonNone
                         /\ Delivered[j].SkipReason = SkipReasonNone
                /\ Delivered[i].FilePath # Delivered[j].FilePath

\* C36 witness: one worker has sent the Results of three files in list
\* order, and the producer's Result for another file was sent before the
\* worker's Result for a file earlier in the list.
Wit_C36 ==
    /\ concurrency = 1
    /\ Cardinality({i \in 1 .. Len(Delivered) :
                       Delivered[i].SkipReason = SkipReasonNone}) = 3
    /\ \E i, j \in 1 .. Len(Delivered) :
          /\ i < j
          /\ Delivered[i].FilePath > Delivered[j].FilePath

\* ------------------------------------------------- a root with an excluded name
\* The root's own base name is one of the excluded names.
RootExcluded == scanIn.rootName \in (defaultExcludeDirs \cup Range(scanIn.opts))

\* C37: when the root's own base name is an excluded name, NewScanner still
\* succeeds for a root that is a directory, Scan reads the root (WalkDir
\* goes into it instead of pruning it), every eligible readable file
\* directly in the root is returned, and a directory below the root with an
\* excluded name is still pruned.
Thm_C37 ==
    /\ [](RootExcluded =>
            /\ (pcRun # "new" /\ scanIn.stat = "dir") =>
                  (scanner # NoScanner /\ pcRun # "scanFailed")
            /\ (/\ entry.kind = "file"
                /\ Len(cbRet.path) = 1
                /\ entry.name \notin scanner.excludeDirs
                /\ ~entry.ignored
                /\ ExtListed(entry.name)
                /\ entry.open /\ entry.read /\ entry.nulAt \notin 0 .. (ProbeLen - 1)) =>
                  (cbRet.add /\ Last(scanFiles) = cbRet.path)
            /\ (entry.kind = "dir" /\ entry.name \in scanner.excludeDirs) =>
                  ~cbRet.entered)
    /\ [][(RootExcluded /\ pcRun = "scan" /\ scanIn.lstat = "dir") =>
            (/\ pcRun' = "walk"
             /\ Len(stack') = 1
             /\ stack'[1].name = scanIn.rootName)]_vars

\* C37 witness: the root is named build, and Scan has returned a file that
\* lies directly in it and has then pruned a directory with an excluded
\* name below it.
Wit_C37 ==
    /\ RootExcluded
    /\ pcRun = "walk"
    /\ Len(scanFiles) = 1
    /\ Len(scanFiles[1]) = 1
    /\ entry.kind = "dir"
    /\ entry.name \in scanner.excludeDirs
    /\ cbRet.ret = "SkipDir"

\* ------------------------------------------------------ the report's name
\* C38: the file name sanitizeFileName returns holds no '/' and no '\', no
\* ".." sequence, is not empty and ends with ".md" in any letter case.
Cex_C38 ==
    report.reportFileName # <<>> =>
        /\ \A i \in 1 .. Len(report.reportFileName) :
              report.reportFileName[i] \notin {"/", "\\"}
        /\ ~Contains(report.reportFileName, <<".", ".">>)
        /\ HasMdSuffix(report.reportFileName)

\* ------------------------------------------------------ interrupted runs
\* runWithTUI's goroutine has called GenerateMarkdownReport.
ReportAttempted == pcCollector \in {"reported", "exit"}

\* C31: when ctx was cancelled before runWithTUI returned (the TUI itself
\* having ended without an error) and the process has exited, the collector
\* had generated the report of what it collected.
Cex_C31 ==
    (main.exit # NoExit /\ main.ran[1].cancelled /\ main.ran[1].via # "p.Run")
        => ReportAttempted

\* ------------------------------------------------------------- batches
\* C35: the tasks are started one after another in argument order, a task is
\* started only while ctx is not cancelled, a task that failed without an
\* interruption is followed by the next one, and once ctx was cancelled
\* while a task of a batch of several was running the process exits with
\* status 130.
Cex_C35 ==
    /\ \A k \in 1 .. Len(main.ran) : main.ran[k].task = k
    /\ \A k \in 1 .. (Len(main.ran) - 1) : ~main.ran[k].cancelled
    /\ (main.exit = 0) => Len(main.ran) = main.n
    /\ (/\ main.n > 1
        /\ main.exit # NoExit
        /\ \E k \in 1 .. Len(main.ran) : main.ran[k].cancelled) => main.exit = 130

=============================================================================
